---- MODULE Spec2Model ----
(***************************************************************************)
(* Model of the credential pipeline of aws-db-monitoring-automation:       *)
(*   scripts/lib/validation.py      (ConfigValidator)                      *)
(*   scripts/transform-config.py    (ConfigTransformer, main)              *)
(*   scripts/validate-credentials.py (CredentialValidator)                 *)
(* Python str values are TLA+ strings (Len, SubSeq and \o act on their     *)
(* characters), dicts are functions whose DOMAIN is the set of keys that   *)
(* are present, lists are sequences, and the empty dict is <<>>.           *)
(***************************************************************************)
EXTENDS Integers, Sequences, FiniteSets, TLC

\* ------------------------------------------------------------------------
\* Python values
\* ------------------------------------------------------------------------

\* Python's None where the code stores it into a string-valued field
None == "<None>"

\* s[i] of a str
Char(s, i) == SubSeq(s, i, i)

\* `sub in s` for two str
Contains(s, sub) ==
    \E i \in 1..(Len(s) - Len(sub) + 1) : SubSeq(s, i, i + Len(sub) - 1) = sub

\* s.startswith(p)
StartsWith(s, p) == Len(s) >= Len(p) /\ SubSeq(s, 1, Len(p)) = p

\* d.get(k, default)
Get(d, k, default) == IF k \in DOMAIN d THEN d[k] ELSE default

\* truthiness of d.get(k) for a str-valued key: present and not ''
HasStr(d, k) == k \in DOMAIN d /\ d[k] # ""

\* isinstance(v, int): an int prints as an optional sign and digits
IsInt(v) ==
    LET t == ToString(v)
    IN  /\ Len(t) >= 1
        /\ \A i \in 1..Len(t) :
              Char(t, i) \in {"-", "0", "1", "2", "3", "4", "5", "6", "7", "8", "9"}

Lower == {"a", "b", "c", "d", "e", "f", "g", "h", "i", "j", "k", "l", "m",
          "n", "o", "p", "q", "r", "s", "t", "u", "v", "w", "x", "y", "z"}
Upper == {"A", "B", "C", "D", "E", "F", "G", "H", "I", "J", "K", "L", "M",
          "N", "O", "P", "Q", "R", "S", "T", "U", "V", "W", "X", "Y", "Z"}
Digit == {"0", "1", "2", "3", "4", "5", "6", "7", "8", "9"}
AlNum == Lower \cup Upper \cup Digit

\* sep.join(parts)
RECURSIVE Join(_, _)
Join(parts, sep) ==
    IF parts = <<>> THEN ""
    ELSE IF Len(parts) = 1 THEN parts[1]
    ELSE parts[1] \o sep \o Join(Tail(parts), sep)

\* re's `$`: the end of the string, or just before one trailing newline
DollarBodies(s) ==
    {s} \cup (IF Len(s) >= 1 /\ Char(s, Len(s)) = "\n"
              THEN {SubSeq(s, 1, Len(s) - 1)} ELSE {})

\* ------------------------------------------------------------------------
\* scripts/lib/validation.py
\* ------------------------------------------------------------------------

\* ^[a-zA-Z0-9][a-zA-Z0-9_-]*$
_validate_name(name) ==
    \E b \in DollarBodies(name) :
        /\ Len(b) >= 1
        /\ Char(b, 1) \in AlNum
        /\ \A i \in 2..Len(b) : Char(b, i) \in AlNum \cup {"_", "-"}

\* ipaddress.ip_address(host) succeeds: dotted quad of 1-3 digit numbers
\* without leading zeros and at most 255, or the IPv6 loopback forms used
\* by the model ("::1", "::")
IsOctet(s) ==
    /\ Len(s) \in 1..3
    /\ \A i \in 1..Len(s) : Char(s, i) \in Digit
    /\ (Len(s) > 1 => Char(s, 1) # "0")
    /\ (Len(s) = 3 => \/ Char(s, 1) = "1"
                      \/ /\ Char(s, 1) = "2"
                         /\ \/ Char(s, 2) \in {"0", "1", "2", "3", "4"}
                            \/ Char(s, 2) = "5" /\ Char(s, 3) \in {"0", "1", "2", "3", "4", "5"})

IsIPv4(host) ==
    \E a \in 1..Len(host), b \in 1..Len(host), c \in 1..Len(host) :
        /\ a < b /\ b < c
        /\ Char(host, a) = "." /\ Char(host, b) = "." /\ Char(host, c) = "."
        /\ IsOctet(SubSeq(host, 1, a - 1))
        /\ IsOctet(SubSeq(host, a + 1, b - 1))
        /\ IsOctet(SubSeq(host, b + 1, c - 1))
        /\ IsOctet(SubSeq(host, c + 1, Len(host)))

IsIPAddress(host) == IsIPv4(host) \/ host \in {"::1", "::"}

\* one hostname label: [a-zA-Z0-9]([a-zA-Z0-9-]{0,61}[a-zA-Z0-9])?
IsLabel(l) ==
    /\ Len(l) \in 1..63
    /\ Char(l, 1) \in AlNum
    /\ Char(l, Len(l)) \in AlNum
    /\ \A i \in 1..Len(l) : Char(l, i) \in AlNum \cup {"-"}

\* ^label(\.label)*$
IsHostname(h) ==
    /\ Len(h) >= 1
    /\ \A i \in 1..Len(h) : Char(h, i) \in AlNum \cup {"-", "."}
    /\ \A i \in 0..Len(h), j \in 1..(Len(h) + 1) :
          ( /\ i < j
            /\ (i = 0 \/ Char(h, i) = ".")
            /\ (j = Len(h) + 1 \/ Char(h, j) = ".")
            /\ \A m \in (i + 1)..(j - 1) : Char(h, m) # "." )
          => IsLabel(SubSeq(h, i + 1, j - 1))

_validate_host(host) ==
    \/ IsIPAddress(host)
    \/ \E b \in DollarBodies(host) : IsHostname(b)

\* ^\d+[smh]$
_validate_interval(interval) ==
    \E b \in DollarBodies(interval) :
        /\ Len(b) >= 2
        /\ \A i \in 1..(Len(b) - 1) : Char(b, i) \in Digit
        /\ Char(b, Len(b)) \in {"s", "m", "h"}

\* ^[a-zA-Z0-9/_\-+=.@]+$
_validate_aws_secret_name(name) ==
    \E b \in DollarBodies(name) :
        /\ Len(b) >= 1
        /\ \A i \in 1..Len(b) : Char(b, i) \in AlNum \cup {"/", "_", "-", "+", "=", ".", "@"}

\* ^/[a-zA-Z0-9/_\-.]+$
_validate_ssm_parameter_name(name) ==
    \E b \in DollarBodies(name) :
        /\ Len(b) >= 2
        /\ Char(b, 1) = "/"
        /\ \A i \in 2..Len(b) : Char(b, i) \in AlNum \cup {"/", "_", "-", "."}

\* [m] if cond else []
When(cond, m) == IF cond THEN <<m>> ELSE <<>>

\* str(v) inside an f-string, for an int or a str
PyStr(v) == IF IsInt(v) THEN ToString(v) ELSE v

\* ConfigValidator._validate_connection: the errors and warnings it appends
ValidHosts(conn) ==
    SelectSeq(<<Get(conn, "host", ""), Get(conn, "endpoint", ""),
                Get(conn, "cluster_endpoint", "")>>, LAMBDA h : h # "")

\* `if port is not None` and the test under it
PortInvalid(port) ==
    IF IsInt(port) THEN port < 1 \/ port > 65535 ELSE port # None

SslModes == {"disable", "require", "verify-ca", "verify-full", "prefer"}

_validate_connection(conn, prefix) ==
    LET valid_hosts == ValidHosts(conn)
        hostErr ==
            IF valid_hosts = <<>>
            THEN <<prefix \o ".connection: No host specified">>
            ELSE IF Len(valid_hosts) > 1 THEN <<>>
            ELSE When(~_validate_host(valid_hosts[1]),
                      prefix \o ".connection: Invalid host '" \o valid_hosts[1] \o "'")
        hostWarn ==
            When(Len(valid_hosts) > 1,
                 prefix \o ".connection: Multiple hosts specified, will use first one")
        portErr ==
            IF "port" \in DOMAIN conn /\ PortInvalid(conn.port)
            THEN <<prefix \o ".connection: Invalid port '" \o PyStr(conn.port)
                     \o "' - must be 1-65535">>
            ELSE <<>>
        sslErr ==
            When(HasStr(conn, "ssl_mode") /\ Get(conn, "ssl_mode", "") \notin SslModes,
                 prefix \o ".connection: Invalid ssl_mode '" \o Get(conn, "ssl_mode", "") \o "'")
    IN  [errors |-> hostErr \o portErr \o sslErr, warnings |-> hostWarn]

Sources == {"plain", "aws_secrets_manager", "aws_ssm_parameter", "env_var"}
AwsSources == {"aws_secrets_manager", "aws_ssm_parameter"}

\* a validator that says nothing about a plain password
PlainPasswordWarnsAlt(creds) == FALSE

\* `if creds.get('password')` under password_source plain: the warning
PlainPasswordWarns(creds) == HasStr(creds, "password")

\* ConfigValidator._validate_credentials
_validate_credentials(creds, prefix) ==
    LET user_source == Get(creds, "user_source", "plain")
        password_source == Get(creds, "password_source", "plain")
        key == Get(creds, "password_key", "")
        userEnum ==
            When(user_source \notin Sources,
                 prefix \o ".credentials: Invalid user_source '" \o user_source \o "'")
        userRef ==
            IF user_source = "plain" /\ ~HasStr(creds, "user")
            THEN <<prefix \o ".credentials: Missing 'user' for plain text source">>
            ELSE IF user_source = "env_var" /\ ~HasStr(creds, "user_env")
            THEN <<prefix \o ".credentials: Missing 'user_env' for environment variable source">>
            ELSE IF user_source \in AwsSources /\ ~HasStr(creds, "user_key")
            THEN <<prefix \o ".credentials: Missing 'user_key' for AWS source">>
            ELSE <<>>
        pwEnum ==
            When(password_source \notin Sources,
                 prefix \o ".credentials: Invalid password_source '" \o password_source \o "'")
        pwRef ==
            IF password_source = "plain" THEN <<>>
            ELSE IF password_source = "env_var" /\ ~HasStr(creds, "password_env")
            THEN <<prefix \o ".credentials: Missing 'password_env' for environment variable source">>
            ELSE IF password_source \in AwsSources /\ ~HasStr(creds, "password_key")
            THEN <<prefix \o ".credentials: Missing 'password_key' for AWS source">>
            ELSE <<>>
        pwWarn ==
            When(password_source = "plain" /\ PlainPasswordWarns(creds),
                 prefix \o ".credentials: Using plain text password is not recommended")
        keyErr ==
            IF password_source = "aws_secrets_manager"
            THEN When(key # "" /\ ~_validate_aws_secret_name(key),
                      prefix \o ".credentials: Invalid secret name '" \o key \o "'")
            ELSE IF password_source = "aws_ssm_parameter"
            THEN When(key # "" /\ ~_validate_ssm_parameter_name(key),
                      prefix \o ".credentials: Invalid SSM parameter name '" \o key \o "'")
            ELSE <<>>
    IN  [errors |-> userEnum \o userRef \o pwEnum \o pwRef \o keyErr,
         warnings |-> pwWarn]

\* ConfigValidator._validate_monitoring; the bounded fields are modelled
\* with int values (or a str, which is not a number)
NumericFields ==
    << [field |-> "max_sql_query_length", lo |-> 1, hi |-> 10000, los |-> "1", his |-> "10000"],
       [field |-> "max_sample_rate", lo |-> 0, hi |-> 1, los |-> "0.0", his |-> "1.0"],
       [field |-> "query_timeout", lo |-> 1, hi |-> 3600, los |-> "1", his |-> "3600"] >>

NumericError(monitoring, f, prefix) ==
    IF f.field \notin DOMAIN monitoring THEN <<>>
    ELSE LET value == monitoring[f.field]
         IN  IF IsInt(value)
             THEN When(value < f.lo \/ value > f.hi,
                       prefix \o ".monitoring: " \o f.field \o " must be between "
                         \o f.los \o " and " \o f.his)
             ELSE <<prefix \o ".monitoring: " \o f.field \o " must be a number">>

_validate_monitoring(monitoring, prefix) ==
    LET intervalErr ==
            When(HasStr(monitoring, "interval")
                   /\ ~_validate_interval(Get(monitoring, "interval", "")),
                 prefix \o ".monitoring: Invalid interval '" \o Get(monitoring, "interval", "")
                   \o "' - use format like '30s', '5m', '1h'")
    IN  [errors |-> intervalErr
                      \o NumericError(monitoring, NumericFields[1], prefix)
                      \o NumericError(monitoring, NumericFields[2], prefix)
                      \o NumericError(monitoring, NumericFields[3], prefix),
         warnings |-> <<>>]

\* ConfigValidator._validate_database; index is the 0-based list position
_validate_database(db, db_type, index) ==
    LET prefix == db_type \o "[" \o ToString(index) \o "]"
        nameErr ==
            IF "name" \notin DOMAIN db
            THEN <<prefix \o ": Missing required field 'name'">>
            ELSE When(~_validate_name(db.name),
                      prefix \o ": Invalid name '" \o db.name
                        \o "' - must contain only alphanumeric, dash, underscore")
        typeErr ==
            IF "type" \notin DOMAIN db
            THEN <<prefix \o ": Missing required field 'type'">>
            ELSE When(db.type # db_type,
                      prefix \o ": Type mismatch - expected '" \o db_type
                        \o "', got '" \o db.type \o "'")
        conn == Get(db, "connection", <<>>)
        connRes ==
            IF conn = <<>>
            THEN [errors |-> <<prefix \o ": Missing 'connection' section">>, warnings |-> <<>>]
            ELSE _validate_connection(conn, prefix)
        creds == Get(db, "credentials", <<>>)
        credRes ==
            IF creds = <<>>
            THEN [errors |-> <<prefix \o ": Missing 'credentials' section">>, warnings |-> <<>>]
            ELSE _validate_credentials(creds, prefix)
        monitoring == Get(db, "monitoring", <<>>)
        monRes ==
            IF monitoring = <<>>
            THEN [errors |-> <<>>, warnings |-> <<>>]
            ELSE _validate_monitoring(monitoring, prefix)
    IN  [errors |-> nameErr \o typeErr \o connRes.errors \o credRes.errors \o monRes.errors,
         warnings |-> connRes.warnings \o credRes.warnings \o monRes.warnings]

\* the entries of one bucket, validated in list order
RECURSIVE ValidateBucket(_, _, _)
ValidateBucket(dbs, db_type, i) ==
    IF i > Len(dbs) THEN [errors |-> <<>>, warnings |-> <<>>]
    ELSE LET r == _validate_database(dbs[i], db_type, i - 1)
             rest == ValidateBucket(dbs, db_type, i + 1)
         IN  [errors |-> r.errors \o rest.errors, warnings |-> r.warnings \o rest.warnings]

\* list(set(duplicates)): the order in which a set is iterated is not
\* specified, so every enumeration of S without repetition can come out
SetOrders(S) ==
    {q \in [1..Cardinality(S) -> S] : \A i, j \in 1..Cardinality(S) : i # j => q[i] # q[j]}

\* all_names of _check_duplicate_names
AllNames(config) ==
    LET named(dbs) == SelectSeq(dbs, LAMBDA db : "name" \in DOMAIN db)
        all == named(Get(config, "mysql_databases", <<>>))
                 \o named(Get(config, "postgresql_databases", <<>>))
    IN  [i \in 1..Len(all) |-> all[i].name]

\* a test that needs a third occurrence
CountsAsDuplicateAlt(all_names, name) ==
    Cardinality({i \in 1..Len(all_names) : all_names[i] = name}) > 2

\* all_names.count(name) > 1
CountsAsDuplicate(all_names, name) ==
    Cardinality({i \in 1..Len(all_names) : all_names[i] = name}) > 1

\* set(duplicates)
Duplicates(config) ==
    {AllNames(config)[i] : i \in {j \in 1..Len(AllNames(config)) :
        CountsAsDuplicate(AllNames(config), AllNames(config)[j])}}

\* ConfigValidator._check_duplicate_names, unique_dups being the list the
\* set of duplicates was turned into
_check_duplicate_names(config, unique_dups) ==
    When(unique_dups # <<>>, "Duplicate service names found: " \o Join(unique_dups, ", "))

\* ConfigValidator.validate_config / validate_yaml_config, for one order of
\* unique_dups
validate_config_ordered(config, unique_dups) ==
    LET m == ValidateBucket(Get(config, "mysql_databases", <<>>), "mysql", 1)
        p == ValidateBucket(Get(config, "postgresql_databases", <<>>), "postgresql", 1)
        errors == m.errors \o p.errors \o _check_duplicate_names(config, unique_dups)
    IN  [valid |-> errors = <<>>, errors |-> errors, warnings |-> m.warnings \o p.warnings]

\* what validate_config(config) can return
ValidateResults(config) ==
    {validate_config_ordered(config, unique_dups) : unique_dups \in SetOrders(Duplicates(config))}

\* one of these results; they differ only in the order of the names inside
\* the duplicate-name message, so valid and the warnings are those of any
validate_config(config) == CHOOSE r \in ValidateResults(config) : TRUE

\* ------------------------------------------------------------------------
\* scripts/transform-config.py
\* ------------------------------------------------------------------------

\* A response of the secret store or the parameter store to one fetch call:
\* [ok |-> TRUE, value |-> v], or [ok |-> FALSE, exc |-> text of the exception]

\* a diagnostic that names the key and the exception
FetchSecretDiagAlt(secret_id, resp) ==
    "Error fetching secret " \o secret_id \o ": " \o resp.exc

\* the line fetch_secret prints when the fetch fails
FetchSecretDiag(secret_id, resp) ==
    "Error fetching secret: Failed to retrieve credentials"

\* ConfigTransformer.fetch_secret: the value returned and the lines printed
\* to the diagnostic stream
fetch_secret(secret_id, resp) ==
    IF resp.ok
    THEN [ret |-> resp.value, stderr |-> <<>>]
    ELSE [ret |-> "ERROR_FETCHING_SECRET", stderr |-> <<FetchSecretDiag(secret_id, resp)>>]

\* ConfigTransformer.fetch_ssm_parameter
fetch_ssm_parameter(parameter_name, resp) ==
    IF resp.ok
    THEN [ret |-> resp.value, stderr |-> <<>>]
    ELSE [ret |-> "ERROR_FETCHING_PARAMETER",
          stderr |-> <<"Error fetching SSM parameter: Failed to retrieve credentials">>]

\* a resolution that asks the store a second time
FetchOfAlt(credentials) ==
    LET password_source == Get(credentials, "password_source", "plain")
    IN  IF password_source \in AwsSources /\ HasStr(credentials, "password_key")
        THEN << [api |-> password_source, key |-> credentials.password_key],
                [api |-> password_source, key |-> credentials.password_key] >>
        ELSE <<>>

\* the fetch call resolve_credentials makes for these credentials, if any
FetchOf(credentials) ==
    LET password_source == Get(credentials, "password_source", "plain")
    IN  IF password_source \in AwsSources /\ HasStr(credentials, "password_key")
        THEN <<[api |-> password_source, key |-> credentials.password_key]>>
        ELSE <<>>

\* ConfigTransformer.resolve_credentials; resp answers the fetch call (if one
\* is made) and env is os.environ.  failed records whether the password
\* is the outcome of a failed resolution.
resolve_credentials(credentials, resp, env) ==
    LET password_source == Get(credentials, "password_source", "plain")
        user == Get(credentials, "username", "newrelic")
        res(pw, failed, err) ==
            [user |-> user, password |-> pw, failed |-> failed, stderr |-> err]
    IN  IF password_source = "aws_secrets_manager"
        THEN IF HasStr(credentials, "password_key")
             THEN LET f == fetch_secret(credentials.password_key, resp)
                  IN  res(f.ret, ~resp.ok, f.stderr)
             ELSE res("MISSING_PASSWORD_KEY", TRUE, <<>>)
        ELSE IF password_source = "aws_ssm_parameter"
        THEN IF HasStr(credentials, "password_key")
             THEN LET f == fetch_ssm_parameter(credentials.password_key, resp)
                  IN  res(f.ret, ~resp.ok, f.stderr)
             ELSE res("MISSING_PASSWORD_KEY", TRUE, <<>>)
        ELSE IF password_source = "env_var"
        THEN IF HasStr(credentials, "password_env")
             THEN IF credentials.password_env \in DOMAIN env
                  THEN res(env[credentials.password_env], FALSE, <<>>)
                  ELSE res("ENV_VAR_NOT_SET", TRUE, <<>>)
             ELSE res("MISSING_PASSWORD_ENV", TRUE, <<>>)
        ELSE IF "password" \in DOMAIN credentials
             THEN res(credentials.password, FALSE, <<>>)
             ELSE res("MISSING_PASSWORD", TRUE, <<>>)

\* connection.host or connection.endpoint or connection.cluster_endpoint
HostOf(conn) ==
    IF HasStr(conn, "host") THEN conn.host
    ELSE IF HasStr(conn, "endpoint") THEN conn.endpoint
    ELSE Get(conn, "cluster_endpoint", None)

\* labels without the 'environment' key
CustomLabels(labels) == [k \in DOMAIN labels \ {"environment"} |-> labels[k]]

\* ConfigTransformer.transform_database for an enabled entry that has a
\* 'type': the flat entry built from db and the resolved credentials
FlatEntry(db, creds) ==
    LET conn == Get(db, "connection", <<>>)
        monitoring == Get(db, "monitoring", <<>>)
        tls == Get(db, "tls", <<>>)
        base ==
            [host |-> HostOf(conn),
             port |-> Get(conn, "port", IF db.type = "mysql" THEN 3306 ELSE 5432),
             user |-> creds.user,
             password |-> creds.password,
             service_name |-> Get(db, "name", None),
             environment |-> Get(Get(db, "labels", <<>>), "environment", "production"),
             extended_metrics |-> Get(monitoring, "extended_metrics", TRUE),
             interval |-> Get(monitoring, "interval", "30s"),
             enable_query_monitoring |-> Get(monitoring, "enable_query_monitoring", TRUE),
             query_metrics_interval |-> Get(monitoring, "query_metrics_interval", "60s"),
             max_sql_query_length |-> Get(monitoring, "max_sql_query_length", 1000),
             gather_query_samples |-> Get(monitoring, "gather_query_samples", TRUE),
             custom_labels |-> CustomLabels(Get(db, "labels", <<>>))]
        pg ==
            IF db.type = "postgresql"
            THEN [database |-> Get(conn, "database", "postgres"),
                  sslmode |-> Get(conn, "ssl_mode", "require"),
                  collect_bloat_metrics |-> Get(monitoring, "collect_bloat_metrics", TRUE),
                  collect_db_lock_metrics |-> Get(monitoring, "collect_db_lock_metrics", TRUE)]
            ELSE <<>>
        tlsPart ==
            IF Get(tls, "enabled", FALSE)
            THEN IF HasStr(tls, "ca_bundle_file")
                 THEN [tls_enabled |-> TRUE, tls_ca |-> tls.ca_bundle_file]
                 ELSE [tls_enabled |-> TRUE]
            ELSE <<>>
    IN  (base @@ pg) @@ tlsPart

\* a transformer that skips nothing
EnabledAlt(db) == TRUE

\* db.get('enabled', True)
Enabled(db) == Get(db, "enabled", TRUE)

\* ConfigTransformer.transform_database:
\*   [kind |-> "skip"]                       the entry is disabled (returns None)
\*   [kind |-> "raise", exc |-> text, creds]  db['type'] raises KeyError
\*   [kind |-> "entry", flat, creds]          the flat entry
\* creds is what resolve_credentials returned
transform_database(db, resp, env) ==
    IF ~Enabled(db) THEN [kind |-> "skip"]
    ELSE LET creds == resolve_credentials(Get(db, "credentials", <<>>), resp, env)
         IN  IF "type" \notin DOMAIN db
             THEN [kind |-> "raise", exc |-> "'type'", creds |-> creds]
             ELSE [kind |-> "entry", flat |-> FlatEntry(db, creds), creds |-> creds]

\* yaml.dump of a scalar: bool, int, None or str
YamlScalar(v) ==
    LET t == ToString(v)
    IN  IF t = "TRUE" THEN "true"
        ELSE IF t = "FALSE" THEN "false"
        ELSE IF IsInt(v) THEN t
        ELSE IF v = None THEN "null"
        ELSE v

\* the keys of a flat entry in insertion order (sort_keys=False) and in
\* sorted order (the default of yaml.dump)
FlatKeysInserted ==
    << "host", "port", "user", "password", "service_name", "environment",
       "database", "sslmode", "extended_metrics", "interval",
       "enable_query_monitoring", "query_metrics_interval", "max_sql_query_length",
       "gather_query_samples", "collect_bloat_metrics", "collect_db_lock_metrics",
       "tls_enabled", "tls_ca", "custom_labels" >>

FlatKeysSorted ==
    << "collect_bloat_metrics", "collect_db_lock_metrics", "custom_labels", "database",
       "enable_query_monitoring", "environment", "extended_metrics",
       "gather_query_samples", "host", "interval", "max_sql_query_length", "password",
       "port", "query_metrics_interval", "service_name", "sslmode", "tls_ca",
       "tls_enabled", "user" >>

TopKeysInserted ==
    <<"newrelic_license_key", "newrelic_account_id", "mysql_databases", "postgresql_databases">>

TopKeysSorted ==
    <<"mysql_databases", "newrelic_account_id", "newrelic_license_key", "postgresql_databases">>

\* the block of a nested str -> str mapping, one key per line
RECURSIVE DumpLabels(_, _)
DumpLabels(labels, keys) ==
    IF keys = {} THEN ""
    ELSE LET k == CHOOSE x \in keys : TRUE
         IN  "    " \o k \o ": " \o labels[k] \o "\n" \o DumpLabels(labels, keys \ {k})

\* the lines of one flat entry, the first one introduced by "- "
RECURSIVE DumpEntry(_, _, _, _)
DumpEntry(flat, keys, i, first) ==
    IF i > Len(keys) THEN ""
    ELSE IF keys[i] \notin DOMAIN flat THEN DumpEntry(flat, keys, i + 1, first)
    ELSE LET k == keys[i]
             lead == IF first THEN "- " ELSE "  "
             line ==
                 IF k = "custom_labels"
                 THEN IF DOMAIN flat[k] = {} THEN lead \o k \o ": {}\n"
                      ELSE lead \o k \o ":\n" \o DumpLabels(flat[k], DOMAIN flat[k])
                 ELSE lead \o k \o ": " \o YamlScalar(flat[k]) \o "\n"
         IN  line \o DumpEntry(flat, keys, i + 1, FALSE)

RECURSIVE DumpList(_, _, _)
DumpList(dbs, keys, i) ==
    IF i > Len(dbs) THEN ""
    ELSE DumpEntry(dbs[i], keys, 1, TRUE) \o DumpList(dbs, keys, i + 1)

RECURSIVE DumpTop(_, _, _, _)
DumpTop(config, topKeys, keys, i) ==
    IF i > Len(topKeys) THEN ""
    ELSE IF topKeys[i] \notin DOMAIN config THEN DumpTop(config, topKeys, keys, i + 1)
    ELSE LET k == topKeys[i]
             block ==
                 IF k \in {"mysql_databases", "postgresql_databases"}
                 THEN k \o ":\n" \o DumpList(config[k], keys, 1)
                 ELSE k \o ": " \o YamlScalar(config[k]) \o "\n"
         IN  block \o DumpTop(config, topKeys, keys, i + 1)

\* yaml.dump(output_config, default_flow_style=False, sort_keys=sort_keys)
YamlDump(config, sort_keys) ==
    IF sort_keys THEN DumpTop(config, TopKeysSorted, FlatKeysSorted, 1)
    ELSE DumpTop(config, TopKeysInserted, FlatKeysInserted, 1)

\* an output that always carries both bucket keys
OutputConfigAlt(env, mysql, postgres) ==
    [newrelic_license_key |-> Get(env, "NEWRELIC_LICENSE_KEY", "YOUR_LICENSE_KEY"),
     newrelic_account_id |-> Get(env, "NEWRELIC_ACCOUNT_ID", "YOUR_ACCOUNT_ID"),
     mysql_databases |-> mysql,
     postgresql_databases |-> postgres]

\* ConfigTransformer.transform_config: the dict it returns, given the flat
\* entries collected for each bucket
OutputConfig(env, mysql, postgres) ==
    ( [newrelic_license_key |-> Get(env, "NEWRELIC_LICENSE_KEY", "YOUR_LICENSE_KEY"),
       newrelic_account_id |-> Get(env, "NEWRELIC_ACCOUNT_ID", "YOUR_ACCOUNT_ID")]
      @@ (IF mysql # <<>> THEN [mysql_databases |-> mysql] ELSE <<>>) )
    @@ (IF postgres # <<>> THEN [postgresql_databases |-> postgres] ELSE <<>>)

\* file permission bits
Bit(n, i) == (n \div (2 ^ i)) % 2

\* a & ~m on the nine permission bits
RECURSIVE AndNot(_, _, _)
AndNot(a, m, i) ==
    IF i > 8 THEN 0
    ELSE (IF Bit(a, i) = 1 /\ Bit(m, i) = 0 THEN 2 ^ i ELSE 0) + AndNot(a, m, i + 1)

\* stat.S_IRUSR | stat.S_IWUSR = 0o600
OwnerReadWrite == 384
\* the mode open(..., 'w') asks for when it creates a file: 0o666
CreateMode == 438
\* S_IRGRP = 0o040, S_IROTH = 0o004
OthersCanRead(mode) == Bit(mode, 5) = 1 \/ Bit(mode, 2) = 1

\* ------------------------------------------------------------------------
\* Inputs of the transform program
\* ------------------------------------------------------------------------

\* bound: the number of entries of an input configuration, both buckets
\* together
MaxEntries == 2

InputPath == "/tmp/config.json"
OutputPath == "/tmp/config.yml"

SecretCreds == [user |-> "u", password_source |-> "aws_secrets_manager", password_key |-> "/k/sm"]
SsmCreds == [user |-> "u", password_source |-> "aws_ssm_parameter", password_key |-> "/k/ssm"]
GoodConn == [host |-> "db.local", port |-> 3306]

\* the enhanced entries the inputs are built from, for a bucket type t and a
\* name prefix n
EntriesOf(t, n) ==
    { \* plain user and password
      [name |-> n \o "-plain", type |-> t, connection |-> GoodConn,
       credentials |-> [user |-> "u", password |-> "pl4in"]],
      \* secret-store reference
      [name |-> n \o "-sm", type |-> t, connection |-> GoodConn,
       credentials |-> SecretCreds, labels |-> [environment |-> "test", team |-> "dba"]],
      \* parameter-store reference
      [name |-> n \o "-ssm", type |-> t, connection |-> [endpoint |-> "a.b.com"],
       credentials |-> SsmCreds],
      \* the shape DatabaseDiscovery._parse_rds_instance emits
      [name |-> n \o "-rds", enabled |-> TRUE, type |-> t,
       connection |-> [endpoint |-> "rds.a.b.com", port |-> 3306],
       credentials |-> [username |-> "admin", password_source |-> "aws_secrets_manager",
                        password_key |-> "/rds/r1/" \o n \o "-rds/newrelic"],
       tls |-> [enabled |-> TRUE]],
      \* environment variable reference
      [name |-> n \o "-env", type |-> t, connection |-> GoodConn,
       credentials |-> [user |-> "u", password_source |-> "env_var", password_env |-> "DB_PW"]],
      \* plain source without a password
      [name |-> n \o "-nopw", type |-> t, connection |-> GoodConn,
       credentials |-> [user |-> "u"]],
      \* disabled entry
      [name |-> n \o "-off", enabled |-> FALSE, type |-> t, connection |-> GoodConn,
       credentials |-> SecretCreds],
      \* no host, and an AWS source without its key
      [name |-> n \o "-nohost", type |-> t, connection |-> [port |-> 3306],
       credentials |-> [user |-> "u", password_source |-> "aws_secrets_manager"]],
      \* env_var source without the variable name
      [name |-> n \o "-noenv", type |-> t, connection |-> GoodConn,
       credentials |-> [user |-> "u", password_source |-> "env_var"]] }

MysqlEntries ==
    EntriesOf("mysql", "my")
      \cup { \* an entry without 'type'
             [name |-> "my-notype", connection |-> GoodConn,
              credentials |-> [user |-> "u", password |-> "pl4in"]],
             \* a port given as null
             [name |-> "my-nullport", type |-> "mysql",
              connection |-> [host |-> "db.local", port |-> None],
              credentials |-> [user |-> "u", password |-> "pl4in"]],
             \* a plain password that happens to spell ERROR
             [name |-> "my-odd", type |-> "mysql", connection |-> GoodConn,
              credentials |-> [user |-> "u", password |-> "T-ERROR-9"]] }

PgEntries ==
    { e \in EntriesOf("postgresql", "pg") :
        e.name \in {"pg-plain", "pg-ssm", "pg-rds", "pg-off"} }

SeqsUpTo(S, n) == UNION {[1..k -> S] : k \in 0..n}

\* the configurations read from the input file; a bucket key is absent when
\* its list is empty
ConfigOf(m, p) ==
    (IF m # <<>> THEN [mysql_databases |-> m] ELSE <<>>)
      @@ (IF p # <<>> THEN [postgresql_databases |-> p] ELSE <<>>)

Configs ==
    UNION { { ConfigOf(m, p) : p \in SeqsUpTo(PgEntries, MaxEntries - Len(m)) } :
            m \in SeqsUpTo(MysqlEntries, MaxEntries) }

\* the input file: missing, not parseable, or holding a configuration
NoFile == [exists |-> FALSE]
InputFiles ==
    {NoFile, [exists |-> TRUE, malformed |-> TRUE]}
      \cup {[exists |-> TRUE, config |-> c] : c \in Configs}

\* os.environ
Environs == { <<>>, [DB_PW |-> "envpw", NEWRELIC_LICENSE_KEY |-> "lic123"] }

\* what the secret store or the parameter store answers to a fetch of key
Responses(key) ==
    { [ok |-> TRUE, value |-> "s3cr3t"],
      [ok |-> FALSE, exc |-> "ResourceNotFoundException: can't find " \o key] }

\* the process umask when the temp file is created
Umasks == {18, 63}

\* ------------------------------------------------------------------------
\* State
\* ------------------------------------------------------------------------

\* the transform program (transform-config.py main)
VARIABLES
    dry_run,        \* args.dry_run
    input_file,     \* the file named by args.input_file
    environ,        \* os.environ
    pc,             \* position of the run
    input_config,   \* the configuration loaded from the input file
    validation,     \* the result of validate_yaml_config, once it has run
    i_mysql,        \* entries of mysql_databases already handled by transform_config
    i_pg,           \* entries of postgresql_databases already handled
    mysql_dbs,      \* transform_config's mysql_dbs list
    postgres_dbs,   \* transform_config's postgres_dbs list
    output_config,  \* the dict transform_config returned
    stdout,         \* lines printed to standard output
    stderr,         \* lines printed to the diagnostic stream
    temp_file,      \* the file at output_file + ".tmp"
    out_file,       \* the file at output_file
    fetch_log,      \* fetch calls made to the secret / parameter store
    resolutions,    \* one record per resolved credential
    raised,         \* the type of the exception main caught, "" if none
    exit_code       \* exit status, -1 while running

tvars == << dry_run, input_file, environ, pc, input_config, validation, i_mysql, i_pg,
            mysql_dbs, postgres_dbs, output_config, stdout, stderr, temp_file,
            out_file, fetch_log, resolutions, raised, exit_code >>

\* one call of validate_config
VARIABLES
    v_config,       \* the configuration given to validate_config
    v_result        \* what it returned, once called

vvars == <<v_config, v_result>>

\* the credential validator (validate-credentials.py main)
VARIABLES
    c_file,         \* the file named by args.config_file
    c_skip,         \* args.skip_connection_test
    c_pc,           \* position of the run
    c_config,       \* the configuration load_config returned
    c_i_mysql,      \* entries of mysql_databases already checked
    c_i_pg,         \* entries of postgresql_databases already checked
    c_all_valid,    \* validate_credentials' all_valid
    c_valid,        \* run's valid: what validate_credentials returned
    c_errors,       \* self.errors
    c_warnings,     \* self.warnings
    c_stdout,       \* lines printed to standard output
    c_conns,        \* one record per connection attempt
    c_exit          \* exit status, -1 while running

cvars == << c_file, c_skip, c_pc, c_config, c_i_mysql, c_i_pg, c_all_valid, c_valid, c_errors,
            c_warnings, c_stdout, c_conns, c_exit >>

\* the discovery run (discover-databases.py DatabaseDiscovery and discover_all)
VARIABLES
    d_regions,      \* the regions given to discover_all
    d_tag_arg,      \* the tag_filters given to the constructor, <<>> when none
    d_pc,           \* position of the run
    d_tag_filters,  \* self.tag_filters
    d_region,       \* index in d_regions of the region being scanned
    d_listing,      \* the listing in progress: "instances" or "clusters"
    d_found,        \* the local list of the listing in progress
    d_mysql,        \* discovered_dbs['mysql']
    d_pg,           \* discovered_dbs['postgresql']
    d_stdout,       \* lines printed to standard output
    d_stderr,       \* lines printed to the diagnostic stream
    d_calls         \* one record per page asked of the inventory API

dvars == << d_regions, d_tag_arg, d_pc, d_tag_filters, d_region, d_listing, d_found,
            d_mysql, d_pg, d_stdout, d_stderr, d_calls >>

vars == <<tvars, vvars, cvars, dvars>>

NotRun == [ran |-> FALSE]

\* print(f"  ERROR: {error}") for each error
Prefixed(lead, lines) == [i \in 1..Len(lines) |-> lead \o lines[i]]

\* main's `except Exception as e`: the message goes to the diagnostic stream
\* and the process exits with status 1
Fails(exc, msg, extra_err) ==
    /\ stderr' = stderr \o extra_err \o <<"Error: " \o msg>>
    /\ raised' = exc
    /\ exit_code' = 1
    /\ pc' = "exit"

\* validate_config not called
IdleV ==
    /\ v_config = <<>>
    /\ v_result = NotRun

\* the credential validator at rest
IdleD ==
    /\ d_regions = <<>>
    /\ d_tag_arg = <<>>
    /\ d_pc = "off"
    /\ d_tag_filters = <<>>
    /\ d_region = 0
    /\ d_listing = "instances"
    /\ d_found = <<>>
    /\ d_mysql = <<>>
    /\ d_pg = <<>>
    /\ d_stdout = <<>>
    /\ d_stderr = <<>>
    /\ d_calls = <<>>

IdleC ==
    /\ c_file = NoFile
    /\ c_skip = FALSE
    /\ c_pc = "off"
    /\ c_config = <<>>
    /\ c_i_mysql = 0
    /\ c_i_pg = 0
    /\ c_all_valid = TRUE
    /\ c_valid = None
    /\ c_errors = <<>>
    /\ c_warnings = <<>>
    /\ c_stdout = <<>>
    /\ c_conns = <<>>
    /\ c_exit = -1

InitT ==
    /\ dry_run \in BOOLEAN
    /\ input_file \in InputFiles
    /\ environ \in Environs
    /\ pc = "main"
    /\ input_config = <<>>
    /\ validation = NotRun
    /\ i_mysql = 0
    /\ i_pg = 0
    /\ mysql_dbs = <<>>
    /\ postgres_dbs = <<>>
    /\ output_config = <<>>
    /\ stdout = <<>>
    /\ stderr = <<>>
    /\ temp_file = NoFile
    /\ out_file = NoFile
    /\ fetch_log = <<>>
    /\ resolutions = <<>>
    /\ raised = ""
    /\ exit_code = -1
    /\ IdleV
    /\ IdleC
    /\ IdleD

\* main up to the construction of the transformer
Main ==
    /\ pc = "main"
    /\ IF ~input_file.exists
       THEN /\ stderr' = Append(stderr, "Error: Input file '" \o InputPath \o "' not found")
            /\ exit_code' = 1
            /\ pc' = "exit"
       ELSE /\ pc' = "load"
            /\ UNCHANGED <<stderr, exit_code>>
    /\ UNCHANGED raised
    /\ UNCHANGED << dry_run, input_file, environ, input_config, validation, i_mysql, i_pg,
                    mysql_dbs, postgres_dbs, output_config, stdout, temp_file, out_file,
                    fetch_log, resolutions, vvars, cvars, dvars >>

\* json.load / yaml.safe_load of the input file, in main (dry run) or at the
\* start of process_file
Load ==
    /\ pc = "load"
    /\ stdout' = IF dry_run THEN stdout
                 ELSE Append(stdout, "Reading configuration from " \o InputPath \o "...")
    /\ IF "config" \in DOMAIN input_file
       THEN /\ input_config' = input_file.config
            /\ pc' = IF dry_run THEN "transform" ELSE "validate"
            /\ UNCHANGED <<stderr, raised, exit_code>>
       ELSE /\ Fails("JSONDecodeError", "Expecting value: line 1 column 1 (char 0)", <<>>)
            /\ UNCHANGED input_config
    /\ UNCHANGED << dry_run, input_file, environ, validation, i_mysql, i_pg, mysql_dbs,
                    postgres_dbs, output_config, temp_file, out_file, fetch_log,
                    resolutions, vvars, cvars, dvars >>

\* the validation gate of process_file.  imported is whether
\* `from validation import validate_yaml_config` succeeded; when it did not,
\* the fallback accepts every configuration.
Gate(r) == r.valid

Validate ==
    /\ pc = "validate"
    /\ \E imported \in BOOLEAN :
       \E r \in (IF imported THEN ValidateResults(input_config)
                 ELSE {[valid |-> TRUE, errors |-> <<>>, warnings |-> <<>>]}) :
         LET head == Append(stdout, "Validating configuration...")
         IN  /\ validation' = [ran |-> TRUE, imported |-> imported, valid |-> r.valid,
                               errors |-> r.errors, warnings |-> r.warnings]
             /\ IF ~Gate(r)
                THEN /\ stdout' = head \o <<"\nConfiguration validation failed:">>
                                    \o Prefixed("  ERROR: ", r.errors)
                                    \o (IF r.warnings # <<>>
                                        THEN <<"\nWarnings:">> \o Prefixed("  WARNING: ", r.warnings)
                                        ELSE <<>>)
                     /\ Fails("ValueError", "Invalid configuration", <<>>)
                ELSE /\ stdout' = head
                                    \o (IF r.warnings # <<>>
                                        THEN <<"\nConfiguration warnings:">>
                                               \o Prefixed("  WARNING: ", r.warnings)
                                        ELSE <<>>)
                                    \o <<"Transforming configuration...">>
                     /\ pc' = "transform"
                     /\ UNCHANGED <<stderr, raised, exit_code>>
    /\ UNCHANGED << dry_run, input_file, environ, input_config, i_mysql, i_pg, mysql_dbs,
                    postgres_dbs, output_config, temp_file, out_file, fetch_log,
                    resolutions, vvars, cvars, dvars >>

\* the entry transform_config handles next, if any
MysqlIn == Get(input_config, "mysql_databases", <<>>)
PgIn == Get(input_config, "postgresql_databases", <<>>)
InMysqlLoop == i_mysql < Len(MysqlIn)
NextDb == IF InMysqlLoop THEN MysqlIn[i_mysql + 1] ELSE PgIn[i_pg + 1]

\* the answer used when no fetch call is made
NoResponse == [ok |-> TRUE, value |-> ""]

\* one iteration of a loop of transform_config: transform_database(db) and
\* the append of its result
TransformDatabase ==
    /\ pc = "transform"
    /\ InMysqlLoop \/ i_pg < Len(PgIn)
    /\ LET db == NextDb
           fetch == IF Enabled(db) THEN FetchOf(Get(db, "credentials", <<>>)) ELSE <<>>
       IN  \E resp \in (IF fetch = <<>> THEN {NoResponse} ELSE Responses(fetch[1].key)) :
             LET r == transform_database(db, resp, environ)
                 where == [bucket |-> IF InMysqlLoop THEN "mysql" ELSE "postgresql",
                           index |-> IF InMysqlLoop THEN i_mysql + 1 ELSE i_pg + 1]
             IN  /\ fetch_log' = fetch_log
                       \o [i \in 1..Len(fetch) |->
                             (fetch[i] @@ where)
                               @@ [ok |-> resp.ok, exc |-> Get(resp, "exc", "")]]
                 /\ resolutions' =
                       IF r.kind = "skip" THEN resolutions
                       ELSE Append(resolutions,
                                   where @@ [failed |-> r.creds.failed,
                                             password |-> r.creds.password])
                 /\ IF r.kind = "raise"
                    THEN /\ Fails("KeyError", r.exc, r.creds.stderr)
                         /\ UNCHANGED <<i_mysql, i_pg, mysql_dbs, postgres_dbs>>
                    ELSE /\ stderr' = IF r.kind = "entry" THEN stderr \o r.creds.stderr
                                      ELSE stderr
                         /\ IF InMysqlLoop
                            THEN /\ i_mysql' = i_mysql + 1
                                 /\ mysql_dbs' = IF r.kind = "entry"
                                                 THEN Append(mysql_dbs, r.flat) ELSE mysql_dbs
                                 /\ UNCHANGED <<i_pg, postgres_dbs>>
                            ELSE /\ i_pg' = i_pg + 1
                                 /\ postgres_dbs' = IF r.kind = "entry"
                                                    THEN Append(postgres_dbs, r.flat)
                                                    ELSE postgres_dbs
                                 /\ UNCHANGED <<i_mysql, mysql_dbs>>
                         /\ UNCHANGED <<pc, raised, exit_code>>
    /\ UNCHANGED << dry_run, input_file, environ, input_config, validation, output_config,
                    stdout, temp_file, out_file, vvars, cvars, dvars >>

\* the return of transform_config; in a dry run main prints the dump and
\* ends, otherwise process_file goes on to write the file
DryRunPrint(config) == <<"Transformed configuration (dry run):", YamlDump(config, TRUE)>>

TransformDone ==
    /\ pc = "transform"
    /\ ~InMysqlLoop /\ i_pg = Len(PgIn)
    /\ LET out == OutputConfig(environ, mysql_dbs, postgres_dbs)
       IN  /\ output_config' = out
           /\ IF dry_run
              THEN /\ stdout' = stdout \o DryRunPrint(out)
                   /\ exit_code' = 0
                   /\ pc' = "exit"
              ELSE /\ stdout' = Append(stdout, "Writing transformed configuration to "
                                                 \o OutputPath \o "...")
                   /\ pc' = "open_temp"
                   /\ UNCHANGED exit_code
           /\ UNCHANGED raised
    /\ UNCHANGED << dry_run, input_file, environ, input_config, validation, i_mysql, i_pg,
                    mysql_dbs, postgres_dbs, stderr, temp_file, out_file, fetch_log,
                    resolutions, vvars, cvars, dvars >>

TempPath == OutputPath \o ".tmp"

\* open(temp_file, 'w'): creates the file empty, with the permission bits
\* 0o666 & ~umask
OpenTemp ==
    /\ pc = "open_temp"
    /\ \/ \E umask \in Umasks :
            /\ temp_file' = [exists |-> TRUE, content |-> "",
                             mode |-> AndNot(CreateMode, umask, 0)]
            /\ pc' = "dump"
            /\ UNCHANGED <<stderr, raised, exit_code>>
       \/ /\ Fails("OSError", "[Errno 13] Permission denied: '" \o TempPath \o "'", <<>>)
          /\ UNCHANGED temp_file
    /\ UNCHANGED << dry_run, input_file, environ, input_config, validation, i_mysql, i_pg,
                    mysql_dbs, postgres_dbs, output_config, stdout, out_file, fetch_log,
                    resolutions, vvars, cvars, dvars >>

\* what a write that fails part-way leaves in the file
Partial(text) == SubSeq(text, 1, Len(text) \div 2)

\* yaml.dump(output_config, f, ...) and the close of the file
Dump ==
    /\ pc = "dump"
    /\ LET text == YamlDump(output_config, FALSE)
       IN  \/ /\ temp_file' = [temp_file EXCEPT !.content = text]
              /\ pc' = "chmod"
              /\ UNCHANGED <<stderr, raised, exit_code>>
           \/ /\ temp_file' = [temp_file EXCEPT !.content = Partial(text)]
              /\ Fails("OSError", "[Errno 28] No space left on device", <<>>)
    /\ UNCHANGED << dry_run, input_file, environ, input_config, validation, i_mysql, i_pg,
                    mysql_dbs, postgres_dbs, output_config, stdout, out_file, fetch_log,
                    resolutions, vvars, cvars, dvars >>

\* a chmod that leaves the mode as it is
ChmodModeAlt(mode) == mode

\* os.chmod(temp_file, stat.S_IRUSR | stat.S_IWUSR)
ChmodMode(mode) == OwnerReadWrite

Chmod ==
    /\ pc = "chmod"
    /\ \/ /\ temp_file' = [temp_file EXCEPT !.mode = ChmodMode(temp_file.mode)]
          /\ pc' = "rename"
          /\ UNCHANGED <<stderr, raised, exit_code>>
       \/ /\ Fails("OSError", "[Errno 1] Operation not permitted: '" \o TempPath \o "'", <<>>)
          /\ UNCHANGED temp_file
    /\ UNCHANGED << dry_run, input_file, environ, input_config, validation, i_mysql, i_pg,
                    mysql_dbs, postgres_dbs, output_config, stdout, out_file, fetch_log,
                    resolutions, vvars, cvars, dvars >>

\* os.rename(temp_file, output_file)
Rename ==
    /\ pc = "rename"
    /\ \/ /\ out_file' = temp_file
          /\ temp_file' = NoFile
          /\ pc' = "summary"
          /\ UNCHANGED <<stderr, raised, exit_code>>
       \/ /\ Fails("OSError", "[Errno 13] Permission denied: '" \o TempPath \o "' -> '"
                       \o OutputPath \o "'", <<>>)
          /\ UNCHANGED <<temp_file, out_file>>
    /\ UNCHANGED << dry_run, input_file, environ, input_config, validation, i_mysql, i_pg,
                    mysql_dbs, postgres_dbs, output_config, stdout, fetch_log,
                    resolutions, vvars, cvars, dvars >>

\* the entries process_file counts as credential resolution errors
CountsAsError(db) == Contains(Get(db, "password", ""), "ERROR")

SummaryWarnings(dbs) ==
    LET bad == SelectSeq(dbs, CountsAsError)
    IN  [i \in 1..Len(bad) |->
           "\nWARNING: Failed to resolve credentials for database: "
             \o Get(bad[i], "service_name", "unknown")]

\* an exit status that reports unresolved credentials
ExitAfterSummaryAlt(error_count) == IF error_count > 0 THEN 1 ELSE 0

\* the exit status of a run whose process_file returned: the reported
\* error count does not change it
ExitAfterSummary(error_count) == 0

\* the summary of process_file and the normal return of main
Summary ==
    /\ pc = "summary"
    /\ LET mysql == Get(output_config, "mysql_databases", <<>>)
           postgres == Get(output_config, "postgresql_databases", <<>>)
           warns == SummaryWarnings(mysql) \o SummaryWarnings(postgres)
       IN  /\ exit_code' = ExitAfterSummary(Len(warns))
           /\ stdout' = stdout
                       \o << "\nTransformation complete:",
                             "  MySQL databases: " \o ToString(Len(mysql)),
                             "  PostgreSQL databases: " \o ToString(Len(postgres)) >>
                       \o warns
                       \o (IF Len(warns) > 0
                           THEN << "\nTotal credential resolution errors: "
                                     \o ToString(Len(warns)),
                                   "Please check your AWS credentials and ensure the secrets/parameters exist." >>
                           ELSE <<>>)
    /\ pc' = "exit"
    /\ UNCHANGED << dry_run, input_file, environ, input_config, validation, i_mysql, i_pg,
                    mysql_dbs, postgres_dbs, output_config, stderr, temp_file, out_file,
                    fetch_log, resolutions, raised, vvars, cvars, dvars >>

Next ==
    \/ Main
    \/ Load
    \/ Validate
    \/ TransformDatabase
    \/ TransformDone
    \/ OpenTemp
    \/ Dump
    \/ Chmod
    \/ Rename
    \/ Summary

Spec == InitT /\ [][Next]_vars

TypeOK ==
    /\ pc \in {"main", "load", "validate", "transform", "open_temp", "dump", "chmod",
               "rename", "summary", "exit"}
    /\ exit_code \in {-1, 0, 1}
    /\ (pc = "exit") = (exit_code # -1)

\* ------------------------------------------------------------------------
\* Properties of the transform program
\* ------------------------------------------------------------------------

Range(q) == {q[i] : i \in 1..Len(q)}

InputBucket(b) == IF b = "mysql" THEN MysqlIn ELSE PgIn
FlatBucket(b) == IF b = "mysql" THEN mysql_dbs ELSE postgres_dbs
Handled(b) == IF b = "mysql" THEN i_mysql ELSE i_pg

\* the number of enabled entries among the first i of dbs: the position, in
\* the flat list, of the flat entry of an enabled dbs[i]
EnabledUpTo(dbs, i) == Cardinality({j \in 1..i : Enabled(dbs[j])})

FailedFetches == {f \in Range(fetch_log) : ~f.ok}

SentinelOf(api) ==
    IF api = "aws_secrets_manager" THEN "ERROR_FETCHING_SECRET"
    ELSE "ERROR_FETCHING_PARAMETER"

\* the values obtained by a successful resolution
Secrets == {r.password : r \in {x \in Range(resolutions) : ~x.failed}}

TransformStarted == i_mysql + i_pg > 0 \/ fetch_log # <<>> \/ output_config # <<>>

\* C1: in every run, dry run or not, transform_config (and so any fetch)
\* works on the input configuration only after validate_yaml_config has
\* judged it valid: no entry is transformed, no secret is fetched and no
\* output is produced for a configuration that validate_config rejects
C1_TransformOnlyAfterValidation ==
    TransformStarted => validate_config(input_config).valid

\* C2: no line written to standard output or to the diagnostic stream holds
\* a resolved credential value
C2_NoSecretOnStreams ==
    \A line \in Range(stdout) \cup Range(stderr) :
        \A secret \in Secrets : ~Contains(line, secret)

\* C3: a fetch that fails yields exactly ERROR_FETCHING_SECRET (secret
\* store) or ERROR_FETCHING_PARAMETER (parameter store) as the password, no
\* diagnostic line holds the key or the exception text, the failure does not
\* end the loop, and once transform_config has returned every enabled entry
\* of the input has its flat entry
C3_FetchFailureIsSentinel ==
    /\ \A f \in FailedFetches :
          /\ \E r \in Range(resolutions) :
                /\ r.bucket = f.bucket /\ r.index = f.index
                /\ r.failed
                /\ r.password = SentinelOf(f.api)
          /\ \A line \in Range(stderr) :
                ~Contains(line, f.key) /\ ~Contains(line, f.exc)
          /\ "type" \in DOMAIN InputBucket(f.bucket)[f.index]
                => /\ Handled(f.bucket) >= f.index
                   /\ FlatBucket(f.bucket)[EnabledUpTo(InputBucket(f.bucket), f.index)].password
                        = SentinelOf(f.api)
    /\ output_config # <<>> =>
          /\ Len(mysql_dbs) = EnabledUpTo(MysqlIn, Len(MysqlIn))
          /\ Len(postgres_dbs) = EnabledUpTo(PgIn, Len(PgIn))

\* C3 witness: a fetch failed and a later entry was resolved all the same
C3_Witness ==
    \E f \in FailedFetches : \E r \in Range(resolutions) :
        \/ r.bucket = f.bucket /\ r.index > f.index
        \/ f.bucket = "mysql" /\ r.bucket = "postgresql"

\* C4: every password that is the outcome of a failed resolution begins with
\* ERROR_ or MISSING_
C4_FailureValuesPrefixed ==
    \A r \in Range(resolutions) :
        r.failed => StartsWith(r.password, "ERROR_") \/ StartsWith(r.password, "MISSING_")

\* a file that holds a resolved credential, in part or in full
HoldsSecret(file) ==
    file.exists /\ \E secret \in Secrets : Contains(file.content, secret)

\* C6: no file holding resolved credentials, the temp file or the final
\* file, is ever readable by the group or by others
C6_NoFileReadableByOthers ==
    \A file \in {temp_file, out_file} :
        HoldsSecret(file) => ~OthersCanRead(file.mode)

\* C7: a file under the final output name is completely written and has
\* exactly the owner read/write permission bits
C7_FinalFileCompleteAndPrivate ==
    out_file.exists =>
        /\ out_file.content = YamlDump(output_config, FALSE)
        /\ out_file.mode = OwnerReadWrite

\* C7 witness: the rename has just put the final file in place, and the file
\* holds a resolved credential
C7_Witness ==
    /\ HoldsSecret(out_file)
    /\ pc = "summary"

\* the flat entry of every failed fetch carries the sentinel
SentinelsInOutput ==
    \A f \in FailedFetches :
        LET dbs == Get(output_config, f.bucket \o "_databases", <<>>)
            k == EnabledUpTo(InputBucket(f.bucket), f.index)
        IN  /\ k \in 1..Len(dbs)
            /\ dbs[k].password = SentinelOf(f.api)
            /\ dbs[k].service_name = InputBucket(f.bucket)[f.index].name

\* C8: a run of process_file on a valid configuration in which a fetch
\* failed, and in which no file operation failed, ends with status 0 and
\* with the output file holding one flat entry per enabled entry, the
\* sentinel being the password of each entry whose fetch failed
C8_UnresolvedStillWritten ==
    ( /\ pc = "exit"
      /\ ~dry_run
      /\ validation.ran
      /\ raised # "OSError"
      /\ FailedFetches # {}
      /\ validate_config(input_config).valid )
    => /\ exit_code = 0
       /\ out_file.exists
       /\ out_file.content = YamlDump(output_config, FALSE)
       /\ Len(Get(output_config, "mysql_databases", <<>>)) = EnabledUpTo(MysqlIn, Len(MysqlIn))
       /\ Len(Get(output_config, "postgresql_databases", <<>>)) = EnabledUpTo(PgIn, Len(PgIn))
       /\ SentinelsInOutput

\* C8 witness: such a run has ended, with a resolved and an unresolved entry
C8_Witness ==
    /\ pc = "exit"
    /\ ~dry_run
    /\ validation.ran /\ validation.imported /\ validation.valid
    /\ FailedFetches # {}
    /\ Secrets # {}
    /\ out_file.exists

\* credentials in the shape {username, password_source, password_key}
DiscoveryShape(db) ==
    /\ "credentials" \in DOMAIN db
    /\ DOMAIN db.credentials = {"username", "password_source", "password_key"}

AllDiscoveryShape(config) ==
    /\ MysqlIn \o PgIn # <<>>
    /\ \A db \in Range(MysqlIn \o PgIn) : DiscoveryShape(db)

\* C9: a run of the transform program on a configuration whose entries
\* all carry {username, password_source, password_key} credentials passes
\* the validation gate, exits 0 (no file operation failing) and writes one
\* flat entry per enabled entry, its password the value the store returned
C9_DiscoveryShapeTransforms ==
    ( /\ pc = "exit"
      /\ ~dry_run
      /\ raised # "OSError"
      /\ AllDiscoveryShape(input_config) )
    => /\ validation.ran /\ validation.valid
       /\ exit_code = 0
       /\ out_file.exists
       /\ Len(Get(output_config, "mysql_databases", <<>>)) = EnabledUpTo(MysqlIn, Len(MysqlIn))
       /\ Len(Get(output_config, "postgresql_databases", <<>>)) = EnabledUpTo(PgIn, Len(PgIn))
       /\ \A r \in Range(resolutions) :
             ~r.failed => \E f \in Range(fetch_log) :
                 f.bucket = r.bucket /\ f.index = r.index /\ f.ok

\* ------------------------------------------------------------------------
\* validate_config on its own
\* ------------------------------------------------------------------------

\* bound: the number of entries of a configuration given to validate_config,
\* both buckets together
MaxValidated == 2

PlainCreds == [user |-> "u", password |-> "p"]

\* the entries validate_config is tried on: a well-formed one and entries
\* that break one rule or several
ValidatedEntries ==
    LET E(n, t, conn, creds) == [name |-> n, type |-> t, connection |-> conn, credentials |-> creds]
    IN  { E("db1", "mysql", [host |-> "h", port |-> 3306], PlainCreds),
          E("db2", "postgresql", [endpoint |-> "a.b.com", port |-> 5432], PlainCreds),
          E("db3", "mysql", [cluster_endpoint |-> "10.0.0.1", port |-> 65535, ssl_mode |-> "require"],
            [user_source |-> "plain", user |-> "u", password_source |-> "plain", password |-> "p"]),
          E("db1", "mysql", [host |-> "h", port |-> 70000], PlainCreds),
          E("db1", "mysql", [host |-> "h", port |-> 1, ssl_mode |-> "bogus"], PlainCreds),
          E("db 1", "mysql", [host |-> "h", port |-> 3306], PlainCreds),
          E("db4", "mysql", [host |-> "bad_host", port |-> 3306], PlainCreds),
          E("db4", "mysql", [host |-> "h", endpoint |-> "a.b.com", port |-> 3306], PlainCreds),
          E("db4", "mysql", [port |-> 3306], PlainCreds),
          E("db4", "mysql", [host |-> "bad_host", endpoint |-> "a.b.com", port |-> 0], PlainCreds),
          E("db4", "mysql", [host |-> "h", port |-> 3306], [user |-> "u"]),
          E("db4", "mysql", [host |-> "h", port |-> 3306], [password |-> "p"]),
          E("db5", "mysql", [host |-> "h", port |-> 3306], SecretCreds),
          E("db5", "mysql", [host |-> "h", port |-> 3306],
            [username |-> "admin", password_source |-> "aws_secrets_manager", password_key |-> "/k/sm"]),
          E("db5", "mysql", [host |-> "h", port |-> 3306],
            [user |-> "u", password_source |-> "aws_ssm_parameter", password_key |-> "k/ssm"]),
          E("db5", "mysql", [host |-> "h", port |-> 3306],
            [user_source |-> "env_var", password_source |-> "env_var"]),
          E("db6", "mysql", [host |-> "h", port |-> 3306], PlainCreds)
            @@ [monitoring |-> [interval |-> "30s", max_sql_query_length |-> 1000]],
          E("db6", "mysql", [host |-> "h", port |-> 3306], PlainCreds)
            @@ [monitoring |-> [interval |-> "30", query_timeout |-> 0, max_sample_rate |-> "x"]],
          [name |-> "db7", type |-> "mysql"],
          [connection |-> [host |-> "h"], credentials |-> PlainCreds] }

ValidatedConfigs ==
    UNION { { ConfigOf(m, p) : p \in SeqsUpTo(ValidatedEntries, MaxValidated - Len(m)) } :
            m \in SeqsUpTo(ValidatedEntries, MaxValidated) }

\* the transform program at rest
IdleT ==
    /\ dry_run = FALSE
    /\ input_file = NoFile
    /\ environ = <<>>
    /\ pc = "off"
    /\ input_config = <<>>
    /\ validation = NotRun
    /\ i_mysql = 0
    /\ i_pg = 0
    /\ mysql_dbs = <<>>
    /\ postgres_dbs = <<>>
    /\ output_config = <<>>
    /\ stdout = <<>>
    /\ stderr = <<>>
    /\ temp_file = NoFile
    /\ out_file = NoFile
    /\ fetch_log = <<>>
    /\ resolutions = <<>>
    /\ raised = ""
    /\ exit_code = -1

InitV ==
    /\ IdleT
    /\ IdleD
    /\ IdleC
    /\ v_config \in ValidatedConfigs
    /\ v_result = NotRun

\* a call validate_config(config)
ValidateConfig ==
    /\ ~v_result.ran
    /\ \E r \in ValidateResults(v_config) : v_result' = [ran |-> TRUE] @@ r
    /\ UNCHANGED <<v_config, tvars, cvars, dvars>>

NextV == ValidateConfig

SpecValidate == InitV /\ [][NextV]_vars

\* the entries of a configuration, each with the bucket that holds it
Bucketed(config) ==
    [i \in 1..Len(Get(config, "mysql_databases", <<>>)) |->
        [bucket |-> "mysql", db |-> config.mysql_databases[i]]]
    \o [i \in 1..Len(Get(config, "postgresql_databases", <<>>)) |->
        [bucket |-> "postgresql", db |-> config.postgresql_databases[i]]]

\* one entry with a valid name, a type equal to its bucket, exactly one
\* valid host field, a port in 1..65535 and plain credentials that give
\* both user and password
WellFormedPlainEntry(e) ==
    LET db == e.db
        conn == Get(db, "connection", <<>>)
        creds == Get(db, "credentials", <<>>)
    IN  /\ "name" \in DOMAIN db /\ _validate_name(db.name)
        /\ "type" \in DOMAIN db /\ db.type = e.bucket
        /\ Len(ValidHosts(conn)) = 1 /\ _validate_host(ValidHosts(conn)[1])
        /\ "port" \in DOMAIN conn /\ conn.port \in 1..65535
        /\ Get(creds, "user_source", "plain") = "plain"
        /\ Get(creds, "password_source", "plain") = "plain"
        /\ HasStr(creds, "user") /\ HasStr(creds, "password")

WellFormedPlain(config) ==
    /\ Len(Bucketed(config)) = 1
    /\ WellFormedPlainEntry(Bucketed(config)[1])

\* the optional settings of an entry are valid where present
OptionalSettingsValid(e) ==
    LET conn == Get(e.db, "connection", <<>>)
        monitoring == Get(e.db, "monitoring", <<>>)
    IN  /\ HasStr(conn, "ssl_mode") => conn.ssl_mode \in SslModes
        /\ HasStr(monitoring, "interval") => _validate_interval(monitoring.interval)
        /\ \A k \in 1..Len(NumericFields) :
              NumericFields[k].field \in DOMAIN monitoring =>
                  /\ IsInt(monitoring[NumericFields[k].field])
                  /\ monitoring[NumericFields[k].field] >= NumericFields[k].lo
                  /\ monitoring[NumericFields[k].field] <= NumericFields[k].hi

\* C10 as stated: for a configuration holding one such entry validate_config
\* returns isValid = true, no error and no warning
C10_WellFormedNoWarning ==
    (v_result.ran /\ WellFormedPlain(v_config))
    => /\ v_result.valid
       /\ v_result.errors = <<>>
       /\ v_result.warnings = <<>>

\* C10 amended: for a configuration holding one such entry, whose optional
\* settings are valid, validate_config returns isValid = true, no error and
\* exactly one warning, the plain-text-password warning of that entry
C10_WellFormedOneWarning ==
    ( /\ v_result.ran
      /\ WellFormedPlain(v_config)
      /\ OptionalSettingsValid(Bucketed(v_config)[1]) )
    => /\ v_result.valid
       /\ v_result.errors = <<>>
       /\ v_result.warnings =
            << Bucketed(v_config)[1].bucket
                 \o "[0].credentials: Using plain text password is not recommended" >>

\* C10 witness: validate_config has returned for such a configuration
C10_Witness ==
    /\ v_result.ran
    /\ WellFormedPlain(v_config)
    /\ OptionalSettingsValid(Bucketed(v_config)[1])
    /\ "monitoring" \in DOMAIN Bucketed(v_config)[1].db

\* ------------------------------------------------------------------------
\* validate-credentials.py
\* ------------------------------------------------------------------------

\* bound: the number of flat entries of a configuration given to the
\* credential validator, both buckets together
MaxChecked == 2

ConfigPath == "/tmp/config.yml"

\* '=' * 60
Rule == "============================================================"

\* str.upper()
LowerCase == "abcdefghijklmnopqrstuvwxyz"
UpperCase == "ABCDEFGHIJKLMNOPQRSTUVWXYZ"
RECURSIVE ToUpper(_)
ToUpper(s) ==
    IF s = "" THEN ""
    ELSE LET c == Char(s, 1)
             at == {i \in 1..Len(LowerCase) : Char(LowerCase, i) = c}
         IN  (IF at = {} THEN c ELSE Char(UpperCase, CHOOSE i \in at : TRUE))
               \o ToUpper(SubSeq(s, 2, Len(s)))

\* the database servers a probe can meet: connect is "refused" (the driver
\* raises OperationalError), "error" (it raises something else) or "ok"
MysqlServers ==
    LET Up(grants, perf) ==
            [connect |-> "ok", version |-> "8.0.36", grants |-> grants, perf |-> perf]
    IN  { [connect |-> "refused"],
          [connect |-> "error"],
          Up(<<"GRANT USAGE ON *.* TO 'u'@'%'">>, TRUE),
          Up(<<"GRANT Select, Process ON *.* TO 'u'@'%'">>, TRUE),
          Up(<<"GRANT SELECT, PROCESS ON *.* TO 'u'@'%'", "GRANT REPLICATION CLIENT ON *.* TO 'u'@'%'">>, FALSE),
          Up(<<"GRANT SELECT, PROCESS, REPLICATION CLIENT ON *.* TO 'u'@'%'">>, TRUE) }

PostgresServers ==
    LET Up(role, table, ext, denied) ==
            [connect |-> "ok", has_monitor_role |-> role, has_basic_perms |-> table,
             has_pg_stat_statements |-> ext, denied |-> denied]
    IN  { [connect |-> "refused"],
          [connect |-> "error"],
          Up(TRUE, FALSE, TRUE, FALSE),
          Up(TRUE, TRUE, FALSE, FALSE),
          Up(FALSE, TRUE, TRUE, FALSE),
          Up(FALSE, FALSE, TRUE, FALSE),
          Up(TRUE, TRUE, TRUE, TRUE) }

\* the outcome of a probe: what it returns, whether a connection was
\* opened, whether connection.close() ran before the return, and the
\* warnings it appended
Outcome(success, message, opened, closed, warned) ==
    [success |-> success, message |-> message, opened |-> opened, closed |-> closed,
     warned |-> warned]

RequiredPermissions == <<"SELECT", "PROCESS", "REPLICATION CLIENT">>

\* test_mysql_connection from the connect call on, against each server
MysqlProbe ==
    [server \in MysqlServers |->
        IF server.connect = "refused"
        THEN Outcome(FALSE, "Connection failed: Unable to connect to MySQL database",
                     FALSE, FALSE, FALSE)
        ELSE IF server.connect = "error"
        THEN Outcome(FALSE, "Connection failed: Database connection error",
                     FALSE, FALSE, FALSE)
        ELSE LET grants_str == ToUpper(Join(server.grants, " "))
                 missing_permissions ==
                     SelectSeq(RequiredPermissions, LAMBDA perm : ~Contains(grants_str, perm))
             IN  IF missing_permissions # <<>>
                 THEN Outcome(FALSE,
                              "Missing permissions: " \o Join(missing_permissions, ", "),
                              TRUE, FALSE, FALSE)
                 ELSE IF ~server.perf
                 THEN Outcome(FALSE, "Permission error: Insufficient database privileges",
                              TRUE, FALSE, FALSE)
                 ELSE Outcome(TRUE,
                              "Connected successfully (MySQL " \o server.version \o ")",
                              TRUE, TRUE, FALSE)]

\* a probe that fails when pg_stat_statements is not installed
PostgresProbeAlt ==
    [server \in PostgresServers |->
        IF server.connect = "refused"
        THEN Outcome(FALSE, "Connection failed: Unable to connect to PostgreSQL database",
                     FALSE, FALSE, FALSE)
        ELSE IF server.connect = "error"
        THEN Outcome(FALSE, "Connection failed: Database connection error",
                     FALSE, FALSE, FALSE)
        ELSE IF server.denied
        THEN Outcome(FALSE, "Permission error: Insufficient database privileges",
                     TRUE, FALSE, FALSE)
        ELSE IF ~server.has_monitor_role /\ ~server.has_basic_perms
        THEN Outcome(FALSE, "Missing pg_monitor role or equivalent permissions",
                     TRUE, FALSE, FALSE)
        ELSE Outcome(server.has_pg_stat_statements, "Connected successfully (PostgreSQL)",
                     TRUE, TRUE, ~server.has_pg_stat_statements)]

\* test_postgresql_connection from the connect call on, against each server
PostgresProbe ==
    [server \in PostgresServers |->
        IF server.connect = "refused"
        THEN Outcome(FALSE, "Connection failed: Unable to connect to PostgreSQL database",
                     FALSE, FALSE, FALSE)
        ELSE IF server.connect = "error"
        THEN Outcome(FALSE, "Connection failed: Database connection error",
                     FALSE, FALSE, FALSE)
        ELSE IF server.denied
        THEN Outcome(FALSE, "Permission error: Insufficient database privileges",
                     TRUE, FALSE, FALSE)
        ELSE IF ~server.has_monitor_role /\ ~server.has_basic_perms
        THEN Outcome(FALSE, "Missing pg_monitor role or equivalent permissions",
                     TRUE, FALSE, FALSE)
        ELSE Outcome(TRUE, "Connected successfully (PostgreSQL)", TRUE, TRUE,
                     ~server.has_pg_stat_statements)]

\* db.get('service_name', db['host'])
NameOf(db) ==
    LET name == Get(db, "service_name", db.host)
    IN  IF name = None THEN "None" ELSE PyStr(name)

\* CredentialValidator.test_mysql_connection(db) against server
test_mysql_connection(db, server) ==
    [password |-> db.password, warnings |-> <<>>] @@ MysqlProbe[server]

\* CredentialValidator.test_postgresql_connection(db) against server
test_postgresql_connection(db, server) ==
    LET probe == PostgresProbe[server]
    IN  [password |-> db.password,
         warnings |->
            IF probe.warned
            THEN << NameOf(db)
                      \o ": pg_stat_statements extension not installed (query monitoring limited)" >>
            ELSE <<>>] @@ probe

\* the flat entries transform_database makes of the given enhanced entries,
\* over every answer of the stores and every environment
FlatsOf(entries) ==
    LET results ==
            UNION { { transform_database(db, resp, env) :
                        resp \in (IF FetchOf(Get(db, "credentials", <<>>)) = <<>>
                                  THEN {NoResponse}
                                  ELSE Responses(FetchOf(db.credentials)[1].key)),
                        env \in Environs } :
                    db \in entries }
    IN  { r.flat : r \in {x \in results : x.kind = "entry"} }

\* the flat entries the credential validator is run on
CheckedMysql ==
    FlatsOf({ e \in EntriesOf("mysql", "my") :
                e.name \in {"my-plain", "my-ssm", "my-env", "my-nohost"} })

CheckedPg ==
    FlatsOf({ e \in EntriesOf("postgresql", "pg") :
                e.name \in {"pg-plain", "pg-sm", "pg-nopw", "pg-noenv"} })

\* the configuration files given to the credential validator: missing,
\* not parseable, or a configuration written by the transformer
CheckedFiles ==
    { NoFile, [exists |-> TRUE, malformed |-> TRUE, exc |-> "mapping values are not allowed here"] }
      \cup UNION { UNION { { [exists |-> TRUE, config |-> OutputConfig(env, m, p)] :
                               p \in SeqsUpTo(CheckedPg, MaxChecked - Len(m)) } :
                           m \in SeqsUpTo(CheckedMysql, MaxChecked) } :
                   env \in Environs }

InitC ==
    /\ IdleT
    /\ IdleD
    /\ IdleV
    /\ c_file \in CheckedFiles
    /\ c_skip \in BOOLEAN
    /\ c_pc = "main"
    /\ c_config = <<>>
    /\ c_i_mysql = 0
    /\ c_i_pg = 0
    /\ c_all_valid = TRUE
    /\ c_valid = None
    /\ c_errors = <<>>
    /\ c_warnings = <<>>
    /\ c_stdout = <<>>
    /\ c_conns = <<>>
    /\ c_exit = -1

\* main: the file must exist; then run prints its header
CMain ==
    /\ c_pc = "main"
    /\ IF ~c_file.exists
       THEN /\ c_stdout' = Append(c_stdout,
                                  "ERROR: Configuration file not found: " \o ConfigPath)
            /\ c_exit' = 1
            /\ c_pc' = "exit"
       ELSE /\ c_stdout' = c_stdout \o <<Rule, "Database Credential Validation", Rule>>
            /\ c_pc' = "load"
            /\ UNCHANGED c_exit
    /\ UNCHANGED << c_file, c_skip, c_config, c_i_mysql, c_i_pg, c_all_valid, c_valid, c_errors,
                    c_warnings, c_conns, tvars, vvars, dvars >>

\* validate_credentials up to the licence key check
CLoad ==
    /\ c_pc = "load"
    /\ IF "config" \notin DOMAIN c_file
       THEN /\ c_stdout' = c_stdout \o << "Loading configuration...",
                                          "ERROR: Failed to load configuration: " \o c_file.exc >>
            /\ c_valid' = FALSE
            /\ c_pc' = "summary"
            /\ UNCHANGED <<c_config, c_all_valid, c_errors>>
       ELSE LET nr_key == Get(c_file.config, "newrelic_license_key", "")
                missing == nr_key = "" \/ nr_key = "YOUR_LICENSE_KEY"
            IN  /\ c_config' = c_file.config
                /\ c_errors' = IF missing
                               THEN Append(c_errors, "New Relic license key not configured")
                               ELSE c_errors
                /\ c_all_valid' = ~missing
                /\ c_stdout' = c_stdout \o <<"Loading configuration...">>
                                 \o (IF missing THEN <<>>
                                     ELSE <<"v New Relic license key configured">>)
                /\ c_pc' = "check"
                /\ UNCHANGED c_valid
    /\ UNCHANGED << c_file, c_skip, c_i_mysql, c_i_pg, c_warnings, c_conns, c_exit, tvars, vvars, dvars >>

CMysql == Get(c_config, "mysql_databases", <<>>)
CPg == Get(c_config, "postgresql_databases", <<>>)

\* 'ERROR' in db.get('password', '')
CredentialError(db) == Contains(Get(db, "password", ""), "ERROR")

\* all_valid that remembers only the latest check
AllValidAfterAlt(all_valid, success) == success

\* all_valid after one more check: `all_valid = False` runs when it failed
AllValidAfter(all_valid, success) == all_valid /\ success

\* the body of either loop of validate_credentials for the entry db: the
\* sentinel test, then the probe whose outcome is probe.  The check and
\* cross marks are printed as "v" and "x".
CheckEntry(db, bucket, index, probe, header) ==
    LET name == NameOf(db)
    IN  IF CredentialError(db)
        THEN /\ c_stdout' = c_stdout \o header
                   \o <<"  Checking " \o name \o "... x Failed to resolve credentials">>
             /\ c_errors' = Append(c_errors, name \o ": Credential resolution failed")
             /\ c_all_valid' = AllValidAfter(c_all_valid, FALSE)
             /\ UNCHANGED <<c_warnings, c_conns>>
        ELSE /\ c_conns' = Append(c_conns,
                                  [bucket |-> bucket, index |-> index,
                                   password |-> probe.password, opened |-> probe.opened,
                                   closed |-> probe.closed])
             /\ c_warnings' = c_warnings \o probe.warnings
             /\ c_stdout' = c_stdout \o header
                   \o << "  Checking " \o name \o "... "
                           \o (IF probe.success THEN "v " ELSE "x ") \o probe.message >>
             /\ c_errors' = IF probe.success THEN c_errors
                            ELSE Append(c_errors, name \o ": " \o probe.message)
             /\ c_all_valid' = AllValidAfter(c_all_valid, probe.success)

\* one iteration of the MySQL loop
CheckMysql ==
    /\ c_pc = "check"
    /\ c_i_mysql < Len(CMysql)
    /\ \E server \in MysqlServers :
         LET db == CMysql[c_i_mysql + 1]
         IN  CheckEntry(db, "mysql", c_i_mysql + 1, test_mysql_connection(db, server),
                        IF c_i_mysql = 0
                        THEN <<"", "Validating " \o ToString(Len(CMysql)) \o " MySQL database(s)...">>
                        ELSE <<>>)
    /\ c_i_mysql' = c_i_mysql + 1
    /\ UNCHANGED <<c_file, c_skip, c_pc, c_config, c_i_pg, c_valid, c_exit, tvars, vvars, dvars>>

\* one iteration of the PostgreSQL loop
CheckPostgresql ==
    /\ c_pc = "check"
    /\ c_i_mysql = Len(CMysql)
    /\ c_i_pg < Len(CPg)
    /\ \E server \in PostgresServers :
         LET db == CPg[c_i_pg + 1]
         IN  CheckEntry(db, "postgresql", c_i_pg + 1, test_postgresql_connection(db, server),
                        IF c_i_pg = 0
                        THEN <<"", "Validating " \o ToString(Len(CPg)) \o " PostgreSQL database(s)...">>
                        ELSE <<>>)
    /\ c_i_pg' = c_i_pg + 1
    /\ UNCHANGED <<c_file, c_skip, c_pc, c_config, c_i_mysql, c_valid, c_exit, tvars, vvars, dvars>>

\* the return of validate_credentials
CReturn ==
    /\ c_pc = "check"
    /\ c_i_mysql = Len(CMysql)
    /\ c_i_pg = Len(CPg)
    /\ c_valid' = c_all_valid
    /\ c_pc' = "summary"
    /\ UNCHANGED << c_file, c_skip, c_config, c_i_mysql, c_i_pg, c_all_valid, c_errors, c_warnings,
                    c_stdout, c_conns, c_exit, tvars, vvars, dvars >>

\* a run that always reports success
ExitStatusAlt(valid) == 0

\* return 0 if valid else 1
ExitStatus(valid) == IF valid THEN 0 ELSE 1

\* run's summary and exit status, without --fix
CSummary ==
    /\ c_pc = "summary"
    /\ c_stdout' = c_stdout
         \o <<"", Rule, "VALIDATION SUMMARY", Rule>>
         \o (IF c_warnings # <<>>
             THEN <<"", "Warnings (" \o ToString(Len(c_warnings)) \o "):">>
                    \o Prefixed("  ! ", c_warnings)
             ELSE <<>>)
         \o (IF c_errors # <<>>
             THEN <<"", "Errors (" \o ToString(Len(c_errors)) \o "):">>
                    \o Prefixed("  x ", c_errors)
             ELSE <<"", "v All credentials validated successfully!">>)
    /\ c_exit' = ExitStatus(c_valid)
    /\ c_pc' = "exit"
    /\ UNCHANGED << c_file, c_skip, c_config, c_i_mysql, c_i_pg, c_all_valid, c_valid, c_errors,
                    c_warnings, c_conns, tvars, vvars, dvars >>

NextC ==
    \/ CMain
    \/ CLoad
    \/ CheckMysql
    \/ CheckPostgresql
    \/ CReturn
    \/ CSummary

SpecCred == InitC /\ [][NextC]_vars

\* the values resolve_credentials gives a password it could not resolve
FailureSentinels ==
    { "ERROR_FETCHING_SECRET", "ERROR_FETCHING_PARAMETER", "MISSING_PASSWORD_KEY",
      "MISSING_PASSWORD_ENV", "MISSING_PASSWORD", "ENV_VAR_NOT_SET" }

\* the flat entries of the loaded configuration whose password is such a value
UnresolvedEntries ==
    { db \in Range(CMysql) \cup Range(CPg) : db.password \in FailureSentinels }

\* C5: when the run has ended, every flat entry whose password is a
\* resolution-failure value has an error recorded for it and the exit
\* status is not zero, whatever the probes met
C5_SentinelIsFatal ==
    c_pc = "exit"
    => \A db \in UnresolvedEntries :
          /\ \E e \in Range(c_errors) : StartsWith(e, NameOf(db) \o ": ")
          /\ c_exit # 0

\* ------------------------------------------------------------------------
\* validate_config and duplicate names
\* ------------------------------------------------------------------------

\* bound: the number of entries of a configuration whose names are compared
MaxNamed == 4

\* entries that matter by their name only, one of them without a name
NamedEntries == { [name |-> "a"], [name |-> "b"], [type |-> "mysql"] }

NamedConfigs ==
    UNION { { ConfigOf(m, p) : p \in SeqsUpTo(NamedEntries, MaxNamed - Len(m)) } :
            m \in SeqsUpTo(NamedEntries, MaxNamed) }

InitN ==
    /\ IdleT
    /\ IdleD
    /\ IdleC
    /\ v_config \in NamedConfigs
    /\ v_result = NotRun

SpecNames == InitN /\ [][NextV]_vars

\* s.split(sep)
RECURSIVE Split(_, _)
Split(s, sep) ==
    LET at == {i \in 1..(Len(s) - Len(sep) + 1) : SubSeq(s, i, i + Len(sep) - 1) = sep}
    IN  IF at = {} THEN <<s>>
        ELSE LET i == CHOOSE x \in at : \A y \in at : x <= y
             IN  <<SubSeq(s, 1, i - 1)>> \o Split(SubSeq(s, i + Len(sep), Len(s)), sep)

DuplicateLead == "Duplicate service names found: "

\* the duplicate-name errors among the errors returned
DuplicateErrors == SelectSeq(v_result.errors, LAMBDA e : StartsWith(e, DuplicateLead))

\* the names an error lists
NamesListed(e) == Split(SubSeq(e, Len(DuplicateLead) + 1, Len(e)), ", ")

\* the names that two entries of the configuration share
Repeated(config) ==
    LET all == Bucketed(config)
    IN  { all[i].db.name : i \in { j \in 1..Len(all) :
            /\ "name" \in DOMAIN all[j].db
            /\ \E k \in 1..Len(all) :
                  k # j /\ "name" \in DOMAIN all[k].db /\ all[k].db.name = all[j].db.name } }

\* C11: when a name occurs more than once across both buckets,
\* validate_config reports exactly one duplicate-name error, which lists
\* each repeated name exactly once; when no name repeats it reports none
C11_OneDuplicateError ==
    v_result.ran =>
        IF Repeated(v_config) = {}
        THEN DuplicateErrors = <<>>
        ELSE /\ Len(DuplicateErrors) = 1
             /\ NamesListed(DuplicateErrors[1]) \in SetOrders(Repeated(v_config))

\* C11 witness: validate_config has returned for a configuration in which
\* two names repeat, listing them in the order b, a
C11_Witness ==
    /\ v_result.ran
    /\ Repeated(v_config) = {"a", "b"}
    /\ DuplicateErrors = <<DuplicateLead \o "b, a">>

\* ------------------------------------------------------------------------
\* validate_config and the credential sources
\* ------------------------------------------------------------------------

\* the field a source needs beside it: user / password for plain, user_env /
\* password_env for env_var, user_key / password_key for the AWS sources
Companion(source, kind) ==
    IF source = "plain" THEN kind
    ELSE IF source = "env_var" THEN kind \o "_env"
    ELSE kind \o "_key"

\* the errors reported for the entry at position i (from 1) of bucket b
ErrorsOf(b, i) ==
    {e \in Range(v_result.errors) : StartsWith(e, b \o "[" \o ToString(i - 1) \o "]")}

\* C12: for every entry in which user_source or password_source (plain when
\* not given) lacks its companion field, validate_config reports an error
\* for that entry about the missing field
C12_MissingCompanionReported ==
    v_result.ran =>
        \A b \in {"mysql", "postgresql"} :
            \A i \in 1..Len(Get(v_config, b \o "_databases", <<>>)) :
                \A kind \in {"user", "password"} :
                    LET creds == Get(v_config[b \o "_databases"][i], "credentials", <<>>)
                        source == Get(creds, kind \o "_source", "plain")
                    IN  (source \in Sources /\ ~HasStr(creds, Companion(source, kind)))
                        => \E e \in ErrorsOf(b, i) :
                              \/ Contains(e, "Missing '" \o Companion(source, kind) \o "'")
                              \/ Contains(e, "Missing 'credentials' section")

\* ------------------------------------------------------------------------
\* entries without a host
\* ------------------------------------------------------------------------

\* the entry at position i of input bucket b has none of host, endpoint,
\* cluster_endpoint set to a non-empty value
Hostless(b, i) == ValidHosts(Get(InputBucket(b)[i], "connection", <<>>)) = <<>>

\* the flat entries process_file has made of the entry at position i of
\* input bucket b
FlatEntriesOf(b, i) ==
    IF /\ ~dry_run
       /\ Handled(b) >= i
       /\ Enabled(InputBucket(b)[i])
       /\ EnabledUpTo(InputBucket(b), i) <= Len(FlatBucket(b))
    THEN {FlatBucket(b)[EnabledUpTo(InputBucket(b), i)]}
    ELSE {}

\* C13: for every entry without a host, validate_config returns invalid with
\* an error for that entry containing 'No host specified', and process_file
\* makes no flat entry of it
C13_HostlessRejected ==
    \A b \in {"mysql", "postgresql"} :
        \A i \in 1..Len(InputBucket(b)) :
            Hostless(b, i) =>
                /\ (validation.ran /\ validation.imported) =>
                      /\ ~validation.valid
                      /\ \E e \in Range(validation.errors) :
                            /\ StartsWith(e, b \o "[" \o ToString(i - 1) \o "]")
                            /\ Contains(e, "No host specified")
                /\ FlatEntriesOf(b, i) = {}

\* ------------------------------------------------------------------------
\* disabled entries and empty buckets
\* ------------------------------------------------------------------------

\* the entry has no enabled field, or has enabled = true
SwitchedOn(db) == "enabled" \notin DOMAIN db \/ db.enabled = TRUE

\* the names of the entries of dbs that are switched on, in order
NamesSwitchedOn(dbs) ==
    LET on == SelectSeq(dbs, SwitchedOn)
    IN  [k \in 1..Len(on) |-> on[k].name]

ServiceNames(flat) == [k \in 1..Len(flat) |-> flat[k].service_name]

\* C14: the flat entries made so far are those of the switched-on entries
\* handled so far, one each and in input order, and none of an entry with
\* enabled = false; the output of transform_config holds exactly these for
\* the whole of each bucket
C14_OneFlatEntryPerEnabled ==
    \A b \in {"mysql", "postgresql"} :
        /\ ServiceNames(FlatBucket(b))
             = NamesSwitchedOn(SubSeq(InputBucket(b), 1, Handled(b)))
        /\ output_config # <<>> =>
              ServiceNames(Get(output_config, b \o "_databases", <<>>))
                = NamesSwitchedOn(InputBucket(b))

\* C14 witness: transform_config has returned for a bucket in which an
\* entry with enabled = false comes before one that is switched on
C14_Witness ==
    /\ output_config # <<>>
    /\ \E i, j \in 1..Len(MysqlIn) :
          i < j /\ ~SwitchedOn(MysqlIn[i]) /\ SwitchedOn(MysqlIn[j])

\* C15: in the output of transform_config a bucket key is present exactly
\* when an entry of that bucket survives, and then its list is not empty
C15_NoEmptyBucketKey ==
    output_config # <<>> =>
        \A b \in {"mysql", "postgresql"} :
            /\ (b \o "_databases") \in DOMAIN output_config
                 <=> NamesSwitchedOn(InputBucket(b)) # <<>>
            /\ (b \o "_databases") \in DOMAIN output_config
                 => output_config[b \o "_databases"] # <<>>

\* C15 witness: transform_config has returned for an input whose mysql
\* bucket holds only entries with enabled = false, and whose other bucket
\* is empty or absent
C15_Witness ==
    /\ output_config # <<>>
    /\ MysqlIn # <<>>
    /\ \A i \in 1..Len(MysqlIn) : ~SwitchedOn(MysqlIn[i])
    /\ PgIn = <<>>
    /\ DOMAIN output_config = {"newrelic_license_key", "newrelic_account_id"}

\* ------------------------------------------------------------------------
\* the user of a flat entry
\* ------------------------------------------------------------------------

\* C16: the user of a flat entry is the value its entry's user_source and
\* companion field give: an entry that passed validation with user_source
\* plain and user = u yields a flat entry with user = u, and one with
\* user_source env_var yields the value of the variable user_env names
C16_UserResolvedFromSource ==
    (validation.ran /\ validation.imported /\ validation.valid) =>
        \A b \in {"mysql", "postgresql"} :
            \A i \in 1..Len(InputBucket(b)) :
                \A flat \in FlatEntriesOf(b, i) :
                    LET creds == Get(InputBucket(b)[i], "credentials", <<>>)
                        user_source == Get(creds, "user_source", "plain")
                    IN  /\ (user_source = "plain" /\ HasStr(creds, "user"))
                           => flat.user = creds.user
                        /\ (user_source = "env_var" /\ HasStr(creds, "user_env")
                              /\ creds.user_env \in DOMAIN environ)
                           => flat.user = environ[creds.user_env]

\* ------------------------------------------------------------------------
\* discover-databases.py
\* ------------------------------------------------------------------------

\* {tag['Key']: tag['Value'] for tag in tag_list}: a later tag of the same
\* key replaces an earlier one
RECURSIVE _get_resource_tags(_)
_get_resource_tags(tag_list) ==
    IF tag_list = <<>> THEN <<>>
    ELSE LET last == tag_list[Len(tag_list)]
         IN  (last.Key :> last.Value)
               @@ _get_resource_tags(SubSeq(tag_list, 1, Len(tag_list) - 1))

\* the filters of a DatabaseDiscovery built with tag_filters
DefaultFilters == [monitor |-> "newrelic"]
FiltersOf(tag_filters) == IF tag_filters = <<>> THEN DefaultFilters ELSE tag_filters

\* a matcher that accepts a resource whose tags cannot be fetched
MatchesTagsAlt(tag_filters, response) ==
    IF tag_filters = <<>> THEN TRUE
    ELSE IF ~response.ok THEN TRUE
    ELSE LET resource_tags == _get_resource_tags(Get(response, "TagList", <<>>))
         IN  \A key \in DOMAIN tag_filters :
                Get(resource_tags, key, None) = tag_filters[key]

\* DatabaseDiscovery._matches_tags, response being the answer of
\* list_tags_for_resource: ok with a TagList, or not ok when the call raises
_matches_tags(tag_filters, response) ==
    IF tag_filters = <<>> THEN TRUE
    ELSE IF ~response.ok THEN FALSE
    ELSE LET resource_tags == _get_resource_tags(Get(response, "TagList", <<>>))
         IN  \A key \in DOMAIN tag_filters :
                Get(resource_tags, key, None) = tag_filters[key]

\* db_type of both parse functions
DbTypeOf(engine) ==
    IF Contains(engine, "mysql") THEN "mysql"
    ELSE IF Contains(engine, "postgres") THEN "postgresql"
    ELSE engine

\* the labels of a parsed resource: the fixed ones, then every tag but
\* Environment, env and monitor
LabelsOf(fixed, tags) ==
    [key \in {k \in DOMAIN tags : k \notin {"Environment", "env", "monitor"}} |-> tags[key]]
      @@ fixed

\* DatabaseDiscovery._parse_rds_instance
_parse_rds_instance(instance, region) ==
    LET engine == instance.Engine
        tags == _get_resource_tags(Get(instance, "TagList", <<>>))
    IN  [name |-> instance.DBInstanceIdentifier,
         enabled |-> (instance.DBInstanceStatus = "available"),
         type |-> DbTypeOf(engine),
         provider |-> "rds",
         connection |-> [endpoint |-> instance.Endpoint.Address,
                         port |-> instance.Endpoint.Port],
         credentials |-> [username |-> Get(instance, "MasterUsername", "admin"),
                          password_source |-> "aws_secrets_manager",
                          password_key |-> "/rds/" \o region \o "/"
                                             \o instance.DBInstanceIdentifier \o "/newrelic"],
         monitoring |-> [collect_inventory |-> TRUE, extended_metrics |-> TRUE,
                         collect_rds_metrics |-> TRUE, enable_query_monitoring |-> TRUE],
         tls |-> [enabled |-> TRUE],
         labels |-> LabelsOf(
             [environment |-> Get(tags, "Environment", Get(tags, "env", "unknown")),
              region |-> region,
              engine |-> engine,
              engine_version |-> Get(instance, "EngineVersion", "unknown"),
              instance_class |-> Get(instance, "DBInstanceClass", "unknown"),
              multi_az |-> IF Get(instance, "MultiAZ", FALSE) THEN "true" ELSE "false"],
             tags)]

\* DatabaseDiscovery._parse_aurora_cluster
_parse_aurora_cluster(cluster, region) ==
    LET engine == cluster.Engine
        tags == _get_resource_tags(Get(cluster, "TagList", <<>>))
    IN  [name |-> cluster.DBClusterIdentifier,
         enabled |-> (cluster.Status = "available"),
         type |-> DbTypeOf(engine),
         provider |-> "aurora",
         connection |-> [cluster_endpoint |-> Get(cluster, "Endpoint", None),
                         reader_endpoint |-> Get(cluster, "ReaderEndpoint", None),
                         port |-> Get(cluster, "Port",
                                      IF Contains(engine, "mysql") THEN 3306 ELSE 5432)],
         credentials |-> [username |-> Get(cluster, "MasterUsername", "admin"),
                          password_source |-> "aws_secrets_manager",
                          password_key |-> "/aurora/" \o region \o "/"
                                             \o cluster.DBClusterIdentifier \o "/newrelic",
                          region |-> region],
         monitoring |-> [collect_inventory |-> TRUE, extended_metrics |-> TRUE,
                         collect_aurora_metrics |-> TRUE, monitor_readers |-> TRUE,
                         enable_query_monitoring |-> TRUE],
         tls |-> [enabled |-> TRUE, verify_server_certificate |-> TRUE],
         labels |-> LabelsOf(
             [environment |-> Get(tags, "Environment", Get(tags, "env", "unknown")),
              region |-> region,
              engine |-> engine,
              engine_version |-> Get(cluster, "EngineVersion", "unknown"),
              cluster_type |-> "aurora",
              ha_enabled |-> "true"],
             tags)]

\* ------------------------------------------------------------------------
\* The discovery run: DatabaseDiscovery(tag_filters).discover_all(regions)
\* ------------------------------------------------------------------------

\* pages the inventory API is asked for in one run
MaxPages == 3

\* describe_db_instances records
InstanceOf(id, engine, status, tags) ==
    [DBInstanceIdentifier |-> id, DBInstanceArn |-> "arn:db:" \o id, Engine |-> engine,
     DBInstanceStatus |-> status, Endpoint |-> [Address |-> id \o ".rds", Port |-> 3306],
     MasterUsername |-> "root", TagList |-> tags]

\* describe_db_clusters records
ClusterOf(id, engine, status, tags) ==
    [DBClusterIdentifier |-> id, DBClusterArn |-> "arn:cluster:" \o id, Engine |-> engine,
     Status |-> status, Endpoint |-> id \o ".cluster", TagList |-> tags]

Tag(key, value) == [Key |-> key, Value |-> value]

\* the tags of the resources of the account, by identifier
TagsOf ==
    [a |-> <<Tag("monitor", "newrelic"), Tag("Environment", "prod"), Tag("team", "dba")>>,
     b |-> <<Tag("monitor", "newrelic")>>,
     c |-> <<Tag("monitor", "newrelic"), Tag("env", "dev")>>,
     d |-> <<Tag("monitor", "other"), Tag("team", "dba")>>,
     e |-> <<Tag("monitor", "newrelic"), Tag("team", "dba")>>]

\* resources whose list_tags_for_resource call raises
Untaggable == {"arn:db:b", "arn:cluster:b"}

\* rds.list_tags_for_resource(ResourceName=resource_arn)
ListTagsForResource(resource_arn) ==
    IF resource_arn \in Untaggable THEN [ok |-> FALSE]
    ELSE [ok |-> TRUE, TagList |-> TagsOf[SubSeq(resource_arn, Len(resource_arn), Len(resource_arn))]]

\* the pages describe_db_instances can answer with
InstancePages ==
    { << InstanceOf("a", "mysql", "available", TagsOf.a) >>,
      << InstanceOf("b", "postgres", "available", TagsOf.b),
         InstanceOf("c", "postgres", "creating", TagsOf.c) >>,
      << InstanceOf("d", "mysql", "available", TagsOf.d),
         InstanceOf("e", "oracle-ee", "available", TagsOf.e) >> }

\* the pages describe_db_clusters can answer with
ClusterPages ==
    { << ClusterOf("a", "aurora-mysql", "available", TagsOf.a) >>,
      << ClusterOf("b", "aurora-postgresql", "available", TagsOf.b),
         ClusterOf("c", "aurora-postgresql", "available", TagsOf.c) >>,
      << ClusterOf("d", "aurora-mysql", "available", TagsOf.d) >> }

PagesOf(listing) == IF listing = "instances" THEN InstancePages ELSE ClusterPages

\* the command lines: --regions, and the --tag-filter pairs (none: <<>>)
RegionLists == { <<"us-east-1">>, <<"us-east-1", "eu-west-1">> }
TagArgs == { <<>>, [team |-> "dba"], [monitor |-> "newrelic", team |-> "dba"] }

InitD ==
    /\ IdleT
    /\ IdleV
    /\ IdleC
    /\ d_regions \in RegionLists
    /\ d_tag_arg \in TagArgs
    /\ d_pc = "new"
    /\ d_tag_filters = <<>>
    /\ d_region = 0
    /\ d_listing = "instances"
    /\ d_found = <<>>
    /\ d_mysql = <<>>
    /\ d_pg = <<>>
    /\ d_stdout = <<>>
    /\ d_stderr = <<>>
    /\ d_calls = <<>>

ArnOf(listing, resource) ==
    IF listing = "instances" THEN resource.DBInstanceArn ELSE resource.DBClusterArn

ParseOf(listing, resource, region) ==
    IF listing = "instances" THEN _parse_rds_instance(resource, region)
    ELSE _parse_aurora_cluster(resource, region)

\* the inner loop of discover_rds_instances and discover_aurora_clusters:
\* what one page adds to the local list
RECURSIVE PageEntries(_, _, _, _)
PageEntries(tag_filters, listing, page, region) ==
    IF page = <<>> THEN <<>>
    ELSE (IF _matches_tags(tag_filters, ListTagsForResource(ArnOf(listing, Head(page))))
          THEN << ParseOf(listing, Head(page), region) >>
          ELSE <<>>)
           \o PageEntries(tag_filters, listing, Tail(page), region)

\* the loops of discover_all over what a listing returned
OfType(found, type) == SelectSeq(found, LAMBDA db : db.type = type)

\* DatabaseDiscovery.__init__
Construct ==
    /\ d_pc = "new"
    /\ d_tag_filters' = FiltersOf(d_tag_arg)
    /\ d_region' = 1
    /\ d_pc' = "region"
    /\ UNCHANGED << d_regions, d_tag_arg, d_listing, d_found, d_mysql, d_pg, d_stdout,
                    d_stderr, d_calls, tvars, vvars, cvars >>

\* discover_all: the head of the loop over regions
ScanRegion ==
    /\ d_pc = "region"
    /\ d_region <= Len(d_regions)
    /\ d_stdout' = Append(d_stdout, "Discovering databases in "
                                      \o d_regions[d_region] \o "...")
    /\ d_listing' = "instances"
    /\ d_found' = <<>>
    /\ d_pc' = "page"
    /\ UNCHANGED << d_regions, d_tag_arg, d_tag_filters, d_region, d_mysql, d_pg,
                    d_stderr, d_calls, tvars, vvars, cvars >>

\* the paginator answers with one more page
Paginate ==
    /\ d_pc = "page"
    /\ Len(d_calls) < MaxPages
    /\ \E page \in PagesOf(d_listing) :
         /\ d_found' = d_found \o PageEntries(d_tag_filters, d_listing, page,
                                              d_regions[d_region])
         /\ d_calls' = Append(d_calls, [region |-> d_regions[d_region],
                                        listing |-> d_listing, ok |-> TRUE,
                                        page |-> page])
    /\ UNCHANGED << d_regions, d_tag_arg, d_pc, d_tag_filters, d_region, d_listing,
                    d_mysql, d_pg, d_stdout, d_stderr, tvars, vvars, cvars >>

\* the listing returns its local list to discover_all, which files the
\* entries by type and goes on with the clusters or with the next region
Returned ==
    /\ d_mysql' = d_mysql \o OfType(d_found, "mysql")
    /\ d_pg' = d_pg \o OfType(d_found, "postgresql")
    /\ d_found' = <<>>
    /\ IF d_listing = "instances"
       THEN /\ d_listing' = "clusters"
            /\ UNCHANGED <<d_pc, d_region>>
       ELSE /\ d_listing' = "instances"
            /\ d_region' = d_region + 1
            /\ d_pc' = "region"
    /\ UNCHANGED << d_regions, d_tag_arg, d_tag_filters, d_stdout, tvars, vvars, cvars >>

\* the paginator has no further page
Exhausted ==
    /\ d_pc = "page"
    /\ Returned
    /\ UNCHANGED <<d_stderr, d_calls>>

\* the inventory API raises when asked for a page
ApiError ==
    /\ d_pc = "page"
    /\ d_stderr' = Append(d_stderr,
                          (IF d_listing = "instances" THEN "Error discovering RDS instances in "
                           ELSE "Error discovering Aurora clusters in ")
                            \o d_regions[d_region] \o ": Throttling")
    /\ d_calls' = Append(d_calls, [region |-> d_regions[d_region], listing |-> d_listing,
                                   ok |-> FALSE, page |-> <<>>])
    /\ Returned

\* discover_all returns discovered_dbs
DiscoverAllReturn ==
    /\ d_pc = "region"
    /\ d_region > Len(d_regions)
    /\ d_pc' = "done"
    /\ UNCHANGED << d_regions, d_tag_arg, d_tag_filters, d_region, d_listing, d_found,
                    d_mysql, d_pg, d_stdout, d_stderr, d_calls, tvars, vvars, cvars >>

NextD ==
    \/ Construct
    \/ ScanRegion
    \/ Paginate
    \/ Exhausted
    \/ ApiError
    \/ DiscoverAllReturn

SpecDiscover == InitD /\ [][NextD]_vars

\* what discover's result holds so far
Discovered == d_mysql \o d_pg

\* the entries of the result that came from one listing of one region
ContributionOf(region, listing) ==
    SelectSeq(Discovered,
              LAMBDA db : /\ db.labels.region = region
                          /\ db.provider = (IF listing = "instances" THEN "rds" ELSE "aurora"))

\* the listings that raised
FailedListings == { <<c.region, c.listing>> : c \in {x \in Range(d_calls) : ~x.ok} }

\* the regions whose scan has begun
Scanned == { d_regions[i] : i \in {j \in 1..Len(d_regions) :
                 \E k \in 1..Len(d_stdout) :
                     d_stdout[k] = "Discovering databases in " \o d_regions[j] \o "..."} }

\* C17: a listing that raises an inventory API error at any page contributes
\* no entry for its region to the result, and discover_all still returns
\* after scanning every region.
C17_FailedListingContributesNothing ==
    d_pc = "done" =>
        /\ \A f \in FailedListings : ContributionOf(f[1], f[2]) = <<>>
        /\ Scanned = Range(d_regions)

\* the filter the claim says is in force
AppliedFilter == IF d_tag_arg = <<>> THEN [monitor |-> "newrelic"] ELSE d_tag_arg

\* the tags fetched for a resource carry every pair of the filter
CarriesFilter(arn) ==
    /\ ListTagsForResource(arn).ok
    /\ \A key \in DOMAIN AppliedFilter :
          \E t \in Range(ListTagsForResource(arn).TagList) :
              t.Key = key /\ t.Value = AppliedFilter[key]

\* every entry accepted so far, filed or still in the listing's local list
Accepted == Discovered \o d_found

ArnOfEntry(db) == (IF db.provider = "rds" THEN "arn:db:" ELSE "arn:cluster:") \o db.name

\* C18: a resource is in discover's output only if its fetched tags carry
\* every pair of the filter, the filter being {monitor: newrelic} when none
\* was supplied; a resource whose tags cannot be fetched is not accepted,
\* and the resources after it on the page are still examined.
C18_OnlyTaggedResources ==
    /\ \A db \in Range(Accepted) : CarriesFilter(ArnOfEntry(db))
    /\ \A c \in Range(d_calls) : \A i, j \in 1..Len(c.page) :
          /\ i < j
          /\ ~ListTagsForResource(ArnOf(c.listing, c.page[i])).ok
          /\ CarriesFilter(ArnOf(c.listing, c.page[j]))
          /\ DbTypeOf(c.page[j].Engine) \in {"mysql", "postgresql"}
          => \E db \in Range(Accepted) :
                /\ ArnOfEntry(db) = ArnOf(c.listing, c.page[j])
                /\ db.labels.region = c.region

C18_Witness ==
    /\ d_pc = "done"
    /\ d_tag_arg = <<>>
    /\ \E c \in Range(d_calls) :
          /\ c.ok
          /\ c.listing = "instances"
          /\ Len(c.page) = 2
          /\ ~ListTagsForResource(c.page[1].DBInstanceArn).ok
    /\ \E c \in Range(d_calls) : c.ok /\ c.listing = "clusters" /\ c.page[1].DBClusterIdentifier = "d"
    /\ [n \in 1..Len(d_pg) |-> d_pg[n].name] = <<"c">>
    /\ d_mysql = <<>>

\* C19: every connection test_mysql_connection or test_postgresql_connection
\* opened is closed by the time the function has returned, whatever the
\* exit path: success, missing privileges, or an exception after the
\* connection was opened.
C19_EveryConnectionClosed ==
    \A i \in 1..Len(c_conns) : c_conns[i].opened => c_conns[i].closed

\* the lines validate_credentials printed for the entries it checked, and
\* those of them that report a failure
CheckLines == SelectSeq(c_stdout, LAMBDA line : StartsWith(line, "  Checking "))
FailedCheckLines == SelectSeq(CheckLines, LAMBDA line : Contains(line, "... x "))

LicenceKeyMissing ==
    Get(c_file.config, "newrelic_license_key", "") \in {"", "YOUR_LICENSE_KEY"}

\* validate_credentials has returned for a configuration it could load
ChecksReturned == c_pc \in {"summary", "exit"} /\ "config" \in DOMAIN c_file

\* C20: once the configuration is loaded, validate_credentials checks every
\* entry of both buckets whatever the earlier entries gave, and returns
\* false exactly when the licence key check or some entry's check failed.
C20_EveryEntryChecked ==
    ChecksReturned =>
        /\ Len(CheckLines) = Len(CMysql) + Len(CPg)
        /\ c_valid = FALSE <=> (LicenceKeyMissing \/ FailedCheckLines # <<>>)

C20_Witness ==
    /\ ChecksReturned
    /\ ~LicenceKeyMissing
    /\ Len(CMysql) = 1
    /\ Len(CPg) = 1
    /\ Len(FailedCheckLines) = 1
    /\ FailedCheckLines[1] = CheckLines[1]
    /\ c_valid = FALSE
    /\ c_exit = 1

\* C21: the credential validator exits with 0 only if no error was
\* recorded; a run that recorded an error (licence key, unresolved
\* credential, failed probe) exits with a status other than 0.
C21_ExitZeroOnlyWithoutErrors ==
    c_pc = "exit" => (c_exit = 0 <=> (c_file.exists /\ "config" \in DOMAIN c_file /\ c_errors = <<>>))

C21_Witness ==
    /\ c_pc = "exit"
    /\ c_exit = 1
    /\ Len(c_errors) = 2
    /\ ~LicenceKeyMissing
    /\ \E i \in 1..2 : Contains(c_errors[i], "Credential resolution failed")
    /\ \E i \in 1..2 : Contains(c_errors[i], "Connection failed")

\* C22: with --skip-connection-test no database connection is attempted
\* for any entry.
C22_SkipOpensNoConnection ==
    c_skip => c_conns = <<>>

\* the rules an entry of bucket b violates, each as the text its error
\* carries: name charset, type against bucket, host format, port range,
\* ssl_mode, the companion of user_source and of password_source, the
\* format of the secret or parameter key, the interval, the numeric fields
ViolatedRules(b, db) ==
    LET conn == Get(db, "connection", <<>>)
        creds == Get(db, "credentials", <<>>)
        monitoring == Get(db, "monitoring", <<>>)
        Missing(kind) ==
            LET source == Get(creds, kind \o "_source", "plain")
            IN  IF creds # <<>> /\ source \in Sources /\ ~HasStr(creds, Companion(source, kind))
                THEN {"Missing '" \o Companion(source, kind) \o "'"}
                ELSE {}
        key == Get(creds, "password_key", "")
    IN  (IF "name" \in DOMAIN db /\ ~_validate_name(db.name) THEN {"Invalid name"} ELSE {})
        \cup (IF "type" \in DOMAIN db /\ db.type # b THEN {"Type mismatch"} ELSE {})
        \cup (IF \E h \in Range(ValidHosts(conn)) : ~_validate_host(h)
              THEN {"Invalid host"} ELSE {})
        \cup (IF "port" \in DOMAIN conn /\ PortInvalid(conn.port) THEN {"Invalid port"} ELSE {})
        \cup (IF HasStr(conn, "ssl_mode") /\ conn.ssl_mode \notin SslModes
              THEN {"Invalid ssl_mode"} ELSE {})
        \cup Missing("user")
        \cup Missing("password")
        \cup (IF Get(creds, "password_source", "plain") = "aws_secrets_manager"
                  /\ key # "" /\ ~_validate_aws_secret_name(key)
              THEN {"Invalid secret name"} ELSE {})
        \cup (IF Get(creds, "password_source", "plain") = "aws_ssm_parameter"
                  /\ key # "" /\ ~_validate_ssm_parameter_name(key)
              THEN {"Invalid SSM parameter name"} ELSE {})
        \cup (IF HasStr(monitoring, "interval") /\ ~_validate_interval(monitoring.interval)
              THEN {"Invalid interval"} ELSE {})
        \cup { NumericFields[n].field \o " must be" :
                 n \in { k \in 1..Len(NumericFields) :
                           /\ NumericFields[k].field \in DOMAIN monitoring
                           /\ LET value == monitoring[NumericFields[k].field]
                              IN  IF IsInt(value)
                                  THEN value < NumericFields[k].lo \/ value > NumericFields[k].hi
                                  ELSE TRUE } }

\* C23: validate_config does not stop at the first error: for every entry,
\* each rule the entry violates has its error in the list, whatever else
\* is wrong in the same entry or in another one.
C23_EveryViolatedRuleReported ==
    v_result.ran =>
        \A b \in {"mysql", "postgresql"} :
            \A i \in 1..Len(Get(v_config, b \o "_databases", <<>>)) :
                \A rule \in ViolatedRules(b, v_config[b \o "_databases"][i]) :
                    \E e \in ErrorsOf(b, i) : Contains(e, rule)

\* the fetch calls made for the entry at position i (from 1) of bucket b
FetchCalls(b, i) == SelectSeq(fetch_log, LAMBDA f : f.bucket = b /\ f.index = i)

\* the entry is enabled and names a secret or a parameter by a non-empty key
NeedsFetch(db) ==
    /\ SwitchedOn(db)
    /\ "credentials" \in DOMAIN db
    /\ Get(db.credentials, "password_source", "plain")
         \in {"aws_secrets_manager", "aws_ssm_parameter"}
    /\ Get(db.credentials, "password_key", "") # ""

\* C24: transform_config makes exactly one fetch call for an enabled entry
\* whose password_source is aws_secrets_manager or aws_ssm_parameter with a
\* non-empty password_key, and none for any other entry; a failed fetch is
\* not repeated.
C24_OneFetchPerReference ==
    \A b \in {"mysql", "postgresql"} :
        \A i \in 1..Len(InputBucket(b)) :
            /\ Len(FetchCalls(b, i)) <= (IF NeedsFetch(InputBucket(b)[i]) THEN 1 ELSE 0)
            /\ i <= Handled(b)
                 => Len(FetchCalls(b, i)) = (IF NeedsFetch(InputBucket(b)[i]) THEN 1 ELSE 0)

C24_Witness ==
    /\ pc = "exit"
    /\ Len(MysqlIn) = 1
    /\ Len(PgIn) = 1
    /\ i_mysql = 1
    /\ i_pg = 1
    /\ NeedsFetch(MysqlIn[1])
    /\ ~NeedsFetch(PgIn[1])
    /\ Get(PgIn[1].credentials, "password_source", "plain") = "aws_secrets_manager"
    /\ Len(fetch_log) = 1
    /\ ~fetch_log[1].ok

\* the keys of the tags the inventory API lists for the resource of an entry
TagKeysOf(db) ==
    { TagsOf[SubSeq(db.name, Len(db.name), Len(db.name))][i].Key :
        i \in 1..Len(TagsOf[SubSeq(db.name, Len(db.name), Len(db.name))]) }

\* C25: the labels of every discovered entry contain environment and
\* region, and no label is copied from a tag whose key is a tag-filter key
\* in use or one of Environment, env, monitor.
C25_LabelsLeaveOutFilterTags ==
    \A db \in Range(Accepted) :
        /\ {"environment", "region"} \subseteq DOMAIN db.labels
        /\ \A key \in TagKeysOf(db) \cap (DOMAIN d_tag_filters \cup {"Environment", "env", "monitor"}) :
              key \notin DOMAIN db.labels

\* the server accepts the connection and answers the probe's queries
Answers(server) == server.connect = "ok" /\ ~server.denied

ExtensionWarning == "pg_stat_statements extension not installed"

\* C26: test_postgresql_connection passes exactly when the connection
\* succeeds and the user holds pg_monitor or pg_read_all_stats or else has
\* SELECT on pg_stat_database; a passing probe that finds pg_stat_statements
\* missing appends one warning and no error, and neither the probe result
\* nor the exit status depends on it.
C26_ExtensionOnlyWarns ==
    /\ \A db \in CheckedPg : \A server \in PostgresServers :
          LET r == test_postgresql_connection(db, server)
          IN  /\ r.success <=> (Answers(server)
                                  /\ (server.has_monitor_role \/ server.has_basic_perms))
              /\ Len(r.warnings) = (IF r.success /\ ~server.has_pg_stat_statements THEN 1 ELSE 0)
              /\ \A w \in Range(r.warnings) : Contains(w, ExtensionWarning)
    /\ \A e \in Range(c_errors) : ~Contains(e, ExtensionWarning)
    /\ (c_pc = "exit" /\ ChecksReturned /\ c_errors = <<>>) => c_exit = 0

C26_Witness ==
    /\ c_pc = "exit"
    /\ c_exit = 0
    /\ Len(c_conns) = 1
    /\ c_conns[1].bucket = "postgresql"
    /\ Len(c_warnings) = 1
    /\ Contains(c_warnings[1], ExtensionWarning)
    /\ c_errors = <<>>

\* C27: the credential validator never attempts a connection with a
\* resolution-failure value as the password: an entry whose password is one
\* of the values the transformer writes for a failed resolution is rejected
\* before test_mysql_connection or test_postgresql_connection is called.
C27_NoProbeWithSentinel ==
    \A i \in 1..Len(c_conns) : c_conns[i].password \notin FailureSentinels

\* the names the summary of process_file reports as unresolved
ReportedUnresolved ==
    { SubSeq(line, Len("\nWARNING: Failed to resolve credentials for database: ") + 1, Len(line)) :
        line \in { l \in Range(stdout) :
                     StartsWith(l, "\nWARNING: Failed to resolve credentials for database: ") } }

\* the names of the entries whose resolution failed
FailedResolutions ==
    { InputBucket(r.bucket)[r.index].name : r \in { x \in Range(resolutions) : x.failed } }

\* C28: an entry whose password was resolved to a real value is never
\* reported as a credential resolution failure, whatever characters the
\* value contains: only entries whose resolution failed are reported.
C28_OnlyFailedResolutionsReported ==
    ReportedUnresolved \subseteq FailedResolutions

\* the buckets of the file process_file has written
WrittenBucket(b) ==
    IF out_file.exists THEN Get(output_config, b \o "_databases", <<>>) ELSE <<>>

\* C29: every flat entry process_file writes from a configuration that
\* passed validation has a non-empty host and an integer port between 1
\* and 65535.
C29_WrittenHostAndPort ==
    validate_config(input_config).valid =>
        \A b \in {"mysql", "postgresql"} : \A i \in 1..Len(WrittenBucket(b)) :
            /\ WrittenBucket(b)[i].host \notin {None, ""}
            /\ IsInt(WrittenBucket(b)[i].port)
            /\ WrittenBucket(b)[i].port \in 1..65535

\* C30: the credential validator prints "All credentials validated
\* successfully" only in a run that exits with 0; a run that exits with
\* another status, the one that could not load its configuration file
\* included, never prints it.
C30_SuccessLineOnlyOnExitZero ==
    (c_pc = "exit" /\ c_exit # 0)
        => \A i \in 1..Len(c_stdout) :
              ~Contains(c_stdout[i], "All credentials validated successfully")

====
